---- MODULE Spec2Model ----
(***************************************************************************)
(* The Eye - document monitor.  A model of runner/StateManager.js and of   *)
(* the orchestrator runner/index.js (processSite, main,                    *)
(* createErrorFingerprint) and of the validation of runner/Downloader.js.  *)
(*                                                                         *)
(* Ten specifications share the module:                                    *)
(*   SpecDiff      StateManager.diff called once on a manager whose state  *)
(*                 and whose argument are drawn from bounded sets (the     *)
(*                 unit tests of the repository, generalised);             *)
(*   Spec          repeated executions of main() over one site: load,      *)
(*                 processSite, save, exit;                                *)
(*   SpecSites     one execution of main() over two sites;                 *)
(*   SpecValidate  one download validated by Downloader.validateFile;      *)
(*   SpecDiffOrder SpecDiff over the snapshots diff is rearranged on;      *)
(*   SpecDownload  withRetry around Downloader.download for one document;  *)
(*   SpecNavigate  Navigator.navigate over the steps of one site;          *)
(*   SpecExtract   Extractor.extract over the items of one page;           *)
(*   SpecFilter    Extractor.applyFilters over a list of documents;        *)
(*   SpecDeepLinks Extractor.resolveDeepLinks over a list of documents.    *)
(***************************************************************************)
EXTENDS Integers, Sequences, FiniteSets, TLC

VARIABLES
    state,        \* StateManager.state.sites of the running process (in memory)
    currentDocs,  \* SpecDiff: the argument of the diff call
    diffResult,   \* SpecDiff: what diff returned
    dpc,          \* SpecDiff: "call" before the diff call, "done" after it
    disk,         \* the sites of state/state.json
    config,       \* main: the enabled sites of the loaded configuration, in order
    pc,           \* "idle": no process; "sites": main is in its loop over the sites
    args,         \* parseArgs(): [dryRun, notify]
    idx,          \* position of the loop of main in SiteList
    results,      \* the results array of main
    now,          \* the clock: the time of the current (or last) execution
    exitCode,     \* process.exit code of the last execution
    saves,        \* calls of StateManager.save in the current (or last) execution
    ev,           \* observation: the last processSite call, its inputs and effects
    notifiedNew,  \* observation: per site, the documents delivered as new by an
                  \* earlier non-dry execution and listed by every page seen since
    failedWith,   \* observation: per site, how it failed in the latest execution
    file,         \* SpecValidate: the downloaded bytes, the declared type, the URL's extension
    validation,   \* SpecValidate: the expected type used and what validateFile returned
    vpc,          \* SpecValidate: "call" before the validation, "done" after it
    dl,           \* SpecDownload: withRetry around Downloader.download for one document
    nav,          \* SpecNavigate: Navigator.navigate over the steps of one site
    ex            \* SpecExtract, SpecFilter, SpecDeepLinks: a call of Extractor.extract,
                  \* of applyFilters, of resolveDeepLinks: its inputs and its result

diffVars == <<state, currentDocs, diffResult, dpc>>
runVars == <<disk, config, pc, args, idx, results, now, exitCode, saves, ev, notifiedNew, failedWith>>
fileVars == <<file, validation, vpc>>
stepVars == <<dl, nav, ex>>
vars == <<state, currentDocs, diffResult, dpc, disk, config, pc, args, idx, results, now,
          exitCode, saves, ev, notifiedNew, failedWith, file, validation, vpc, dl, nav, ex>>

-----------------------------------------------------------------------------
(* Bounds of the model *)

\* longest stored snapshot drawn for a diff call
MaxPrev == 2
\* longest current document list drawn for a diff call
MaxCur == 2
\* executions of main
MaxRuns == 2
\* longest document list a page yields
MaxDocs == 2
\* largest configured `retries` of a site or of a step
MaxRetries == 2
\* longest list of navigation steps
MaxSteps == 2
\* most items a page lists, most documents filtered or resolved
MaxItems == 2

-----------------------------------------------------------------------------
(* Values *)

\* `lastCheck: null`, and a document without firstSeen: the falsy timestamp
NoTime == 0
\* a document without a title (undefined or "", both falsy)
NoTitle == ""
\* a document without a hash (undefined or "", both falsy)
NoHash == ""
\* error.step undefined: `stepInfo?.action || ''` and `stepInfo?.selector || ''`
NoStep == [action |-> << >>, selector |-> << >>]
\* `lastError` null or absent
NoError == [fingerprint |-> << >>, message |-> << >>, step |-> NoStep,
            timestamp |-> NoTime, consecutiveCount |-> 0]

\* download called without expectedType (null), a URL path without extension
NoType == ""
\* `site.retries` or `step.retries` not configured (undefined)
Unset == -1
\* no download and no navigation under way
NoResponse == [status |-> 0, contentType |-> << >>, body |-> << >>]
NoThrow == [name |-> "", reason |-> << >>]
\* one call of download: how the in-session path ended ("valid", "rejected",
\* "failed") and the bytes it saved, the calls of downloadDirect, the response,
\* the writeFile and validateFile calls of downloadDirect, the error thrown
NoAttempt == [session |-> "none", saved |-> << >>, direct |-> 0, response |-> NoResponse,
              written |-> 0, validated |-> 0, error |-> NoThrow]
NoDownload == [pc |-> "none", retries |-> Unset, limit |-> 0, attempt |-> 0, delays |-> << >>,
               type |-> NoType, log |-> << >>, cur |-> NoAttempt, files |-> {},
               returned |-> FALSE]
\* no call of the Extractor
NoExtraction == [pc |-> "none", op |-> "", input |-> << >>, config |-> << >>,
                 outcomes |-> << >>, result |-> << >>]
\* what navigate threw: nothing
NoNavigationError == [name |-> << >>, message |-> << >>, action |-> "", stepIndex |-> Unset,
                      screenshot |-> FALSE, html |-> FALSE]
NoNavigation == [pc |-> "none", steps |-> << >>, i |-> 1, attempt |-> 0, log |-> << >>,
                 skipped |-> {}, stepIndex |-> Unset, lastError |-> << >>, operated |-> {},
                 capture |-> "", error |-> NoNavigationError]
\* no download under validation
NoFile == [buffer |-> << >>, declared |-> NoType, ext |-> NoType]
NoValidation == [expectedType |-> NoType,
                 result |-> [valid |-> FALSE, reason |-> << >>, hash |-> << >>, size |-> 0]]

\* the site ids a configuration may hold
Sites == {"s1", "s2"}
\* main: `sites`, the list its loop goes through
SiteList == config
Urls == {"u1", "u2"}
Titles == {NoTitle, "Doc", "DOC"}
Hashes == {"h1", "h2"}

\* String.prototype.toLowerCase on the titles of the model
ToLower(t) ==
    CASE t = "Doc" -> "doc"
      [] t = "DOC" -> "doc"
      [] OTHER -> t

\* a document record: what diff and updateSiteState read and write
\* (date and id are copied along and never read by a decision)
Document(t, u, h, fs) == [title |-> t, url |-> u, hash |-> h, firstSeen |-> fs]

\* the site state getSiteState creates on first access
EmptySiteState == [lastCheck |-> NoTime, documents |-> <<>>, lastError |-> NoError]

\* sequences over S of length at most n
SeqUpTo(S, n) == UNION {[1..k -> S] : k \in 0..n}

-----------------------------------------------------------------------------
(* StateManager *)

\* getSiteState: the sites after the access (the entry is created if missing)
GetSiteStateSitesFresh(sites, siteId) ==
    [s \in (DOMAIN sites) \cup {siteId} |-> IF s = siteId THEN EmptySiteState ELSE sites[s]]

\* getSiteState: the sites after the call (an unknown site gets an empty entry)
GetSiteStateSites(sites, siteId) ==
    IF siteId \in DOMAIN sites
    THEN sites
    ELSE [s \in (DOMAIN sites) \cup {siteId} |->
            IF s = siteId THEN EmptySiteState ELSE sites[s]]

\* previousByUrl, mutated: the first record of a key is kept instead of the last
PrevByUrlIdxFirst(prev, u) ==
    LET hits == {i \in 1..Len(prev) : prev[i].url = u}
    IN IF hits = {} THEN 0 ELSE CHOOSE i \in hits : \A j \in hits : i <= j

\* previousByUrl, mutated: only the first record of the snapshot is indexed
PrevByUrlIdxHead(prev, u) == IF Len(prev) > 0 /\ prev[1].url = u THEN 1 ELSE 0

\* previousByUrl, mutated: every record is stored under the same (undefined) key,
\* so any lookup returns the last record
PrevByUrlIdxOneKey(prev, u) == Len(prev)

\* previousByUrl.get(u): Map.set keeps the last record of each key; 0 = undefined
PrevByUrlIdx(prev, u) ==
    LET hits == {i \in 1..Len(prev) : prev[i].url = u}
    IN IF hits = {} THEN 0 ELSE CHOOSE i \in hits : \A j \in hits : j <= i

\* previousByTitle.get(k): only titled records are indexed, by lower-cased title
PrevByTitleIdx(prev, k) ==
    LET hits == {i \in 1..Len(prev) :
                    prev[i].title # NoTitle /\ ToLower(prev[i].title) = k}
    IN IF hits = {} THEN 0 ELSE CHOOSE i \in hits : \A j \in hits : j <= i

\* the hash test of diff, mutated: without the two presence tests
HashChangedLoose(doc, p) == doc.hash # p.hash
\* the hash test of diff, mutated: === in place of !==
HashChangedInverted(doc, p) == doc.hash # NoHash /\ p.hash # NoHash /\ doc.hash = p.hash
\* doc.hash && prevByUrl.hash && doc.hash !== prevByUrl.hash
HashChanged(doc, p) == doc.hash # NoHash /\ p.hash # NoHash /\ doc.hash # p.hash

\* the title lookup of diff, mutated: titles compared without lower-casing
TitleKeyExact(t) == t
\* doc.title?.toLowerCase()
TitleKey(t) == ToLower(t)

\* the body of the loop of diff, mutated: the title lookup comes first
ClassifyTitleFirst(prev, doc) ==
    LET iu == PrevByUrlIdx(prev, doc.url)
        titleKey == TitleKey(doc.title)
        it == IF titleKey # NoTitle THEN PrevByTitleIdx(prev, titleKey) ELSE 0
    IN IF it # 0 /\ prev[it].url # doc.url
       THEN [class |-> "updated", reason |-> "url_changed", prevIdx |-> it]
       ELSE IF iu # 0
            THEN IF HashChanged(doc, prev[iu])
                 THEN [class |-> "updated", reason |-> "hash_changed", prevIdx |-> iu]
                 ELSE [class |-> "unchanged", reason |-> "", prevIdx |-> iu]
            ELSE [class |-> "new", reason |-> "", prevIdx |-> 0]

\* the body of the loop of diff for one current document:
\* its class, and the previous record it was matched with
Classify(prev, doc) ==
    LET iu == PrevByUrlIdx(prev, doc.url)
        titleKey == TitleKey(doc.title)
        it == IF titleKey # NoTitle THEN PrevByTitleIdx(prev, titleKey) ELSE 0
    IN IF iu # 0
       THEN IF HashChanged(doc, prev[iu])
            THEN [class |-> "updated", reason |-> "hash_changed", prevIdx |-> iu]
            ELSE [class |-> "unchanged", reason |-> "", prevIdx |-> iu]
       ELSE IF it # 0 /\ prev[it].url # doc.url
            THEN [class |-> "updated", reason |-> "url_changed", prevIdx |-> it]
            ELSE [class |-> "new", reason |-> "", prevIdx |-> 0]

\* the loop of diff, mutated: without the `continue` of the URL branch, so that
\* a document left unchanged goes on to the list of new documents as well
RECURSIVE DiffLoopNoContinue(_, _, _, _)
DiffLoopNoContinue(prev, cur, i, acc) ==
    IF i > Len(cur) THEN acc
    ELSE LET doc == cur[i]
             c == Classify(prev, doc)
         IN DiffLoopNoContinue(prev, cur, i + 1,
              CASE c.class = "new" ->
                     [acc EXCEPT !.new = Append(@, doc)]
                [] c.class = "updated" ->
                     [acc EXCEPT !.updated = Append(@,
                        [doc |-> doc, previousDoc |-> prev[c.prevIdx],
                         reason |-> c.reason])]
                [] OTHER ->
                     [acc EXCEPT !.unchanged = Append(@, doc), !.new = Append(@, doc)])

RECURSIVE DiffLoop(_, _, _, _)
DiffLoop(prev, cur, i, acc) ==
    IF i > Len(cur) THEN acc
    ELSE LET doc == cur[i]
             c == Classify(prev, doc)
         IN DiffLoop(prev, cur, i + 1,
              CASE c.class = "new" ->
                     [acc EXCEPT !.new = Append(@, doc)]
                [] c.class = "updated" ->
                     [acc EXCEPT !.updated = Append(@,
                        [doc |-> doc, previousDoc |-> prev[c.prevIdx],
                         reason |-> c.reason])]
                [] OTHER ->
                     [acc EXCEPT !.unchanged = Append(@, doc)])

EmptyDiff == [new |-> <<>>, updated |-> <<>>, unchanged |-> <<>>]

\* StateManager.diff: the result, given the sites after getSiteState
Diff(sites, siteId, cur) ==
    DiffLoop(GetSiteStateSites(sites, siteId)[siteId].documents, cur, 1, EmptyDiff)

-----------------------------------------------------------------------------
(* Observation records *)

NoErr == [name |-> << >>, message |-> << >>, step |-> NoStep]

\* a site that did not fail in the latest execution
NoFailure == [failed |-> FALSE, err |-> NoErr, dry |-> FALSE]

\* no processSite call yet in this execution
EvNone == [site |-> "", kind |-> "none", listing |-> << >>, served |-> << >>,
           diff |-> EmptyDiff, prev |-> EmptySiteState, calls |-> << >>,
           error |-> NoErr, dup |-> FALSE, closed |-> FALSE, processed |-> 0,
           renotified |-> {}, prevFailure |-> NoFailure, run |-> << >>]

-----------------------------------------------------------------------------
(* SpecDiff: one call of diff('s1', currentDocs) *)

\* the documents a stored snapshot or an argument list may hold
DiffDocs == {Document(t, u, h, NoTime) : t \in Titles, u \in Urls, h \in Hashes \cup {NoHash}}

\* the documents of the argument list: one url, one titled and one hashed value
\* suffice, the stored side ranges over all of them
DiffArgs == {Document(t, "u1", h, NoTime) : t \in {NoTitle, "Doc"}, h \in {NoHash, "h1"}}

InitDiff ==
    /\ disk = << >> /\ pc = "idle" /\ args = [dryRun |-> FALSE, notify |-> FALSE]
    /\ idx = 1 /\ results = << >> /\ now = 0 /\ exitCode = 0 /\ saves = 0
    /\ ev = EvNone /\ notifiedNew = [s \in Sites |-> {}]
    /\ failedWith = [s \in Sites |-> NoFailure]
    /\ config = << "s1" >>
    /\ file = NoFile /\ validation = NoValidation /\ vpc = "none"
    /\ dl = NoDownload /\ nav = NoNavigation /\ ex = NoExtraction
    /\ \/ state = << >>
       \/ \E prev \in SeqUpTo(DiffDocs, MaxPrev) :
            state = [s \in {"s1"} |-> [EmptySiteState EXCEPT !.documents = prev]]
    /\ currentDocs \in SeqUpTo(DiffArgs, MaxCur)
    /\ diffResult = EmptyDiff
    /\ dpc = "call"

DiffCall ==
    /\ dpc = "call"
    /\ diffResult' = Diff(state, "s1", currentDocs)
    /\ state' = GetSiteStateSites(state, "s1")
    /\ dpc' = "done"
    /\ UNCHANGED <<currentDocs, runVars, fileVars, stepVars>>

NextDiff == DiffCall

SpecDiff == InitDiff /\ [][NextDiff]_vars

-----------------------------------------------------------------------------
(* StateManager: the snapshot and the error record *)

\* updateSiteState(siteId, documents) at time t
UpdateSiteStateSkipped(sites, siteId, documents, t) == GetSiteStateSites(sites, siteId)

UpdateSiteState(sites, siteId, documents, t) ==
    LET st == GetSiteStateSites(sites, siteId)
    IN [st EXCEPT ![siteId] =
          [@ EXCEPT !.lastCheck = t,
                    !.documents = [i \in 1..Len(documents) |->
                        Document(documents[i].title, documents[i].url, documents[i].hash,
                                 IF documents[i].firstSeen # NoTime
                                 THEN documents[i].firstSeen ELSE t)]]]

\* setLastError(siteId, errorInfo) at time t
SetLastError(sites, siteId, errorInfo, t) ==
    LET st == GetSiteStateSites(sites, siteId)
        last == st[siteId].lastError
    IN [st EXCEPT ![siteId].lastError =
          [fingerprint |-> errorInfo.fingerprint,
           message |-> errorInfo.message,
           step |-> errorInfo.step,
           timestamp |-> t,
           consecutiveCount |->
               IF last.fingerprint = errorInfo.fingerprint
               THEN (IF last.consecutiveCount = 0 THEN 1 ELSE last.consecutiveCount) + 1
               ELSE 1]]

\* clearLastError(siteId)
ClearLastError(sites, siteId) ==
    LET st == GetSiteStateSites(sites, siteId)
    IN [st EXCEPT ![siteId].lastError = NoError]

-----------------------------------------------------------------------------
(* createErrorFingerprint: strings are sequences of char codes *)

\* '|', the separator of parts.join('|')
Pipe == 124
\* `hash & hash` keeps 32 bits; a value is held as <<high, low>> 16-bit halves
Half == 65536
\* the multiplier of `(hash << 5) - hash`
Mult == 31

ErrorName == <<69, 114, 114, 111, 114>>
NavigationErrorName == <<78, 97, 118, 105, 103, 97, 116, 105, 111, 110>> \o ErrorName

\* hash = ((hash << 5) - hash) + char; hash = hash & hash
HashStep(h, c) ==
    LET t == Mult * h[2] + c
    IN << (Mult * h[1] + (t \div Half)) % Half, t % Half >>

RECURSIVE HashLoop(_, _, _)
HashLoop(str, i, h) ==
    IF i > Len(str) THEN h ELSE HashLoop(str, i + 1, HashStep(h, str[i]))

\* Math.abs of the 32-bit two's complement value <<high, low>>
Abs32(h) ==
    IF 2 * h[1] < Half THEN h
    ELSE IF h[2] = 0 THEN << (Half - h[1]) % Half, 0 >>
    ELSE << Half - 1 - h[1], Half - h[2] >>

\* the four hexadecimal digits of a 16-bit half
Nibbles(x) == << x \div 4096, (x \div 256) % 16, (x \div 16) % 16, x % 16 >>

RECURSIVE StripZeros(_)
StripZeros(d) == IF Len(d) > 1 /\ d[1] = 0 THEN StripZeros(Tail(d)) ELSE d

\* Number.prototype.toString(16): the digits, without leading zeros
ToString16(h) == StripZeros(Nibbles(h[1]) \o Nibbles(h[2]))

\* createErrorFingerprint(error, error.step)
CreateErrorFingerprint(error) ==
    LET name == IF error.name = << >> THEN ErrorName ELSE error.name
        str == name \o <<Pipe>> \o error.message \o <<Pipe>>
                    \o error.step.action \o <<Pipe>> \o error.step.selector
    IN ToString16(Abs32(HashLoop(str, 1, <<0, 0>>)))

-----------------------------------------------------------------------------
(* The environment of an execution *)

\* messages of errors: "Aa", "BB"
Messages == { <<65, 97>>, <<66, 66>> }
\* the message of a notification failure ("TG")
TelegramMessage == <<84, 71>>
\* a configured step: click on "#a"
ClickStep == [action |-> <<99, 108, 105, 99, 107>>, selector |-> <<35, 97>>]

\* what page.goto, Navigator.navigate and Extractor.extract throw
SiteErrors ==
    {[name |-> ErrorName, message |-> m, step |-> NoStep] : m \in Messages}
    \cup {[name |-> NavigationErrorName, message |-> <<65, 97>>, step |-> ClickStep]}

\* what TelegramNotifier throws once its retries are used up
TelegramError == [name |-> ErrorName, message |-> TelegramMessage, step |-> NoStep]

\* the documents Extractor.extract (and resolveDeepLinks) hand over: a url, an
\* optional title, never a hash or a firstSeen
PageTitles == {"Doc"}
PageDocs == {Document(t, u, NoHash, NoTime) : t \in PageTitles, u \in Urls}
Listings == SeqUpTo(PageDocs, MaxDocs) \ { << >> }

\* the file each URL serves during one processSite call, by its SHA-256
Served == {[u \in Urls |-> h] : h \in Hashes}

ShouldNotifyAlways == TRUE

ShouldNotify == ~args.dryRun \/ args.notify

\* one new or updated document in the loops of processSite: the download (all
\* attempts of withRetry) succeeds or fails, each notifier call returns or throws.
\*   dl      the download succeeded, so doc.hash was assigned
\*   calls   the notifier calls made, in order: [file: with attachment, ok: returned]
\*   thrown  the notifier call of the catch block threw: the loop is left
\*   unlinked  fs.unlink(download.path) was reached (it follows the notifier call
\*             inside the try block)
DocOutcomes(doc, served) ==
    LET withFile == IF ShouldNotify
                    THEN { [calls |-> << [file |-> TRUE, ok |-> TRUE] >>, thrown |-> FALSE,
                            unlinked |-> TRUE],
                           [calls |-> << [file |-> TRUE, ok |-> FALSE],
                                         [file |-> FALSE, ok |-> TRUE] >>, thrown |-> FALSE,
                            unlinked |-> FALSE],
                           [calls |-> << [file |-> TRUE, ok |-> FALSE],
                                         [file |-> FALSE, ok |-> FALSE] >>, thrown |-> TRUE,
                            unlinked |-> FALSE] }
                    ELSE { [calls |-> << >>, thrown |-> FALSE, unlinked |-> TRUE] }
        noFile == IF ShouldNotify
                  THEN { [calls |-> << [file |-> FALSE, ok |-> TRUE] >>, thrown |-> FALSE],
                         [calls |-> << [file |-> FALSE, ok |-> FALSE] >>, thrown |-> TRUE] }
                  ELSE { [calls |-> << >>, thrown |-> FALSE] }
    IN {[dl |-> TRUE, hash |-> served[doc.url], calls |-> o.calls, thrown |-> o.thrown,
         unlinked |-> o.unlinked] : o \in withFile}
       \cup {[dl |-> FALSE, hash |-> NoHash, calls |-> o.calls, thrown |-> o.thrown,
               unlinked |-> FALSE] : o \in noFile}

\* the runs of the two loops over the changed documents (new, then updated): one
\* outcome per document, up to and including the first that throws
RECURSIVE DocRuns(_, _, _)
DocRuns(changed, i, served) ==
    IF i > Len(changed) THEN { << >> }
    ELSE UNION { IF o.thrown THEN { << o >> }
                 ELSE { << o >> \o r : r \in DocRuns(changed, i + 1, served) }
               : o \in DocOutcomes(changed[i], served) }

\* diff.new followed by diff.updated.map(u => u.doc), each with its kind
Changed(d) ==
    [i \in 1..Len(d.new) |-> [doc |-> d.new[i], kind |-> "new"]]
    \o [i \in 1..Len(d.updated) |-> [doc |-> d.updated[i].doc, kind |-> d.updated[i].reason]]

ChangedDocs(d) == [i \in 1..Len(Changed(d)) |-> Changed(d)[i].doc]

\* the notifier calls of a run of the loops, flattened, each with its document
RECURSIVE CallsOf(_, _, _)
CallsOf(changed, run, i) ==
    IF i > Len(run) THEN << >>
    ELSE [k \in 1..Len(run[i].calls) |->
            [kind |-> changed[i].kind, title |-> changed[i].doc.title,
             url |-> changed[i].doc.url,
             file |-> run[i].calls[k].file, ok |-> run[i].calls[k].ok]]
         \o CallsOf(changed, run, i + 1)

\* allDocs, mutated: the unchanged documents are left out
AllDocsChangedOnly(d, run) ==
    [i \in 1..Len(run) |->
        IF run[i].dl THEN [ChangedDocs(d)[i] EXCEPT !.hash = run[i].hash]
        ELSE ChangedDocs(d)[i]]

\* allDocs: the changed documents with the hashes the loops assigned, then the
\* unchanged documents
AllDocs(d, run) ==
    [i \in 1..Len(run) |->
        IF run[i].dl THEN [ChangedDocs(d)[i] EXCEPT !.hash = run[i].hash]
        ELSE ChangedDocs(d)[i]]
    \o d.unchanged

-----------------------------------------------------------------------------
(* main and processSite *)

Init ==
    /\ state = << >> /\ disk = << >>
    /\ currentDocs = << >> /\ diffResult = EmptyDiff /\ dpc = "none"
    /\ pc = "idle" /\ args = [dryRun |-> FALSE, notify |-> FALSE]
    /\ idx = 1 /\ results = << >> /\ now = 0 /\ exitCode = 0 /\ saves = 0
    /\ ev = EvNone /\ notifiedNew = [s \in Sites |-> {}]
    /\ failedWith = [s \in Sites |-> NoFailure]
    /\ config = << "s1" >>
    /\ file = NoFile /\ validation = NoValidation /\ vpc = "none"
    /\ dl = NoDownload /\ nav = NoNavigation /\ ex = NoExtraction

\* the command lines: plain, --dry-run, --dry-run --notify
\* (--notify is read only together with --dry-run)
ArgsSet == {[dryRun |-> FALSE, notify |-> FALSE], [dryRun |-> TRUE, notify |-> FALSE],
            [dryRun |-> TRUE, notify |-> TRUE]}

\* main, up to its loop: parseArgs, stateManager.load()
StartRun ==
    /\ pc = "idle"
    /\ now < MaxRuns
    /\ \E a \in ArgsSet :
          /\ args' = a
          /\ notifiedNew' = IF a.dryRun THEN [s \in Sites |-> {}] ELSE notifiedNew
    /\ now' = now + 1
    /\ state' = disk
    /\ pc' = "sites" /\ idx' = 1 /\ results' = << >> /\ saves' = 0
    /\ ev' = EvNone
    /\ UNCHANGED <<disk, config, exitCode, failedWith, currentDocs, diffResult, dpc, fileVars, stepVars>>

\* the site state a processSite call starts from
SiteStateOf(sites, site) == IF site \in DOMAIN sites THEN sites[site] ELSE EmptySiteState

\* processSite returns: main pushes the result and goes on to the next site
Returns(result) ==
    /\ results' = Append(results, result)
    /\ idx' = idx + 1
    /\ UNCHANGED <<pc, exitCode>>

\* processSite rejects: main().catch logs and calls process.exit(1)
Rejects ==
    /\ pc' = "idle"
    /\ exitCode' = 1
    /\ UNCHANGED <<idx, results>>

\* the catch block of processSite, entered with error e while the sites in memory
\* are sites0; ev0 is the observation so far
SiteFailure(site, sites0, e, ev0) ==
    LET st1 == GetSiteStateSites(sites0, site)
        errorFingerprint == CreateErrorFingerprint(e)
        isDuplicate == st1[site].lastError.fingerprint = errorFingerprint
        st2 == SetLastError(st1, site,
                 [fingerprint |-> errorFingerprint, message |-> e.message, step |-> e.step],
                 now)
        notifyIt == ShouldNotify /\ ~isDuplicate
    IN \E ok \in (IF notifyIt THEN BOOLEAN ELSE {TRUE}) :
         /\ state' = st2
         /\ ev' = [ev0 EXCEPT
                     !.kind = IF ok THEN "fail" ELSE "crash",
                     !.error = e,
                     !.dup = isDuplicate,
                     !.closed = ok,
                     !.calls = @ \o (IF notifyIt
                                     THEN << [kind |-> "error", title |-> NoTitle, url |-> "",
                                              file |-> FALSE, ok |-> ok] >>
                                     ELSE << >>)]
         /\ failedWith' = [s \in Sites |->
                IF s = site THEN [failed |-> TRUE, err |-> e, dry |-> args.dryRun]
                ELSE IF ~ok /\ \E k \in (idx + 1)..Len(SiteList) : SiteList[k] = s
                     THEN NoFailure
                     ELSE failedWith[s]]
         /\ IF ok
            THEN Returns([site |-> site, success |-> FALSE, documents |-> 0,
                          new |-> 0, updated |-> 0])
            ELSE Rejects

\* the documents (title, url) among a sequence of notifier calls that were
\* delivered as new
DeliveredNew(calls) ==
    {<<calls[k].title, calls[k].url>> : k \in {j \in 1..Len(calls) :
                                              calls[j].kind = "new" /\ calls[j].ok}}

Listed(listing) == {<<listing[i].title, listing[i].url>> : i \in 1..Len(listing)}

\* processSite: goto, the navigation steps or extract throw
ProcessSiteFatal(site) ==
    \E e \in SiteErrors :
        /\ SiteFailure(site, state, e,
              [EvNone EXCEPT !.site = site, !.prev = SiteStateOf(state, site),
                             !.prevFailure = failedWith[site]])
        /\ UNCHANGED notifiedNew

ProcessSiteZeroStamped(site) ==
    /\ ev' = [EvNone EXCEPT !.site = site, !.kind = "zero", !.closed = TRUE,
                            !.prev = SiteStateOf(state, site),
                            !.prevFailure = failedWith[site]]
    /\ notifiedNew' = [notifiedNew EXCEPT ![site] = {}]
    /\ failedWith' = [failedWith EXCEPT ![site] = NoFailure]
    /\ Returns([site |-> site, success |-> TRUE, documents |-> 0, new |-> 0, updated |-> 0])
    /\ state' = UpdateSiteState(state, site, << >>, now)

\* processSite: extract yields no document (the debug screenshot is taken)
ProcessSiteZero(site) ==
    /\ ev' = [EvNone EXCEPT !.site = site, !.kind = "zero", !.closed = TRUE,
                            !.prev = SiteStateOf(state, site),
                            !.prevFailure = failedWith[site]]
    /\ notifiedNew' = [notifiedNew EXCEPT ![site] = {}]
    /\ failedWith' = [failedWith EXCEPT ![site] = NoFailure]
    /\ Returns([site |-> site, success |-> TRUE, documents |-> 0, new |-> 0, updated |-> 0])
    /\ UNCHANGED state

\* processSite: extract yields documents; diff, the two loops, the state update
ProcessSiteDocs(site) ==
    \E listing \in Listings, served \in Served :
        LET st1 == GetSiteStateSites(state, site)
            d == Diff(state, site, listing)
            changed == Changed(d)
        IN \E run \in DocRuns(ChangedDocs(d), 1, served) :
             LET thrown == run # << >> /\ run[Len(run)].thrown
                 calls == CallsOf(changed, run, 1)
                 processed == Cardinality({i \in 1..Len(run) :
                                  run[i].dl /\ (run[i].calls = << >> \/ run[i].calls[1].ok)})
                 ev0 == [EvNone EXCEPT
                            !.site = site, !.listing = listing, !.served = served,
                            !.diff = d, !.prev = SiteStateOf(state, site),
                            !.calls = calls, !.processed = processed, !.run = run,
                            !.prevFailure = failedWith[site],
                            !.renotified = IF args.dryRun THEN {}
                                           ELSE DeliveredNew(calls) \cap notifiedNew[site]]
             IN /\ notifiedNew' = [notifiedNew EXCEPT ![site] =
                       IF args.dryRun THEN {}
                       ELSE (@ \cap Listed(listing)) \cup DeliveredNew(calls)]
                /\ IF thrown
                   THEN SiteFailure(site, st1, TelegramError, ev0)
                   ELSE /\ state' = ClearLastError(
                                       IF ~args.dryRun
                                       THEN UpdateSiteState(st1, site, AllDocs(d, run), now)
                                       ELSE st1, site)
                        /\ ev' = [ev0 EXCEPT !.kind = "ok", !.closed = TRUE]
                        /\ failedWith' = [failedWith EXCEPT ![site] = NoFailure]
                        /\ Returns([site |-> site, success |-> TRUE,
                                    documents |-> Len(listing), new |-> Len(d.new),
                                    updated |-> Len(d.updated)])

\* one iteration of the loop of main: processSite(site, ...)
ProcessSite ==
    /\ pc = "sites"
    /\ idx <= Len(SiteList)
    /\ \/ ProcessSiteFatal(SiteList[idx])
       \/ ProcessSiteZero(SiteList[idx])
       \/ ProcessSiteDocs(SiteList[idx])
    /\ UNCHANGED <<disk, config, args, now, saves, currentDocs, diffResult, dpc, fileVars, stepVars>>

FinishRunAlwaysSaves ==
    /\ pc = "sites"
    /\ idx > Len(SiteList)
    /\ disk' = state /\ saves' = saves + 1
    /\ exitCode' = IF results # << >> /\ \A i \in 1..Len(results) : ~results[i].success
                   THEN 1 ELSE 0
    /\ pc' = "idle"
    /\ ev' = EvNone
    /\ UNCHANGED <<state, config, args, idx, results, now, notifiedNew, failedWith,
                   currentDocs, diffResult, dpc, fileVars, stepVars>>

\* main, after its loop: save unless dry-run, the exit code
FinishRun ==
    /\ pc = "sites"
    /\ idx > Len(SiteList)
    /\ IF ~args.dryRun
       THEN disk' = state /\ saves' = saves + 1
       ELSE UNCHANGED <<disk, saves>>
    /\ exitCode' = IF results # << >> /\ \A i \in 1..Len(results) : ~results[i].success
                   THEN 1 ELSE 0
    /\ pc' = "idle"
    /\ ev' = EvNone
    /\ UNCHANGED <<state, config, args, idx, results, now, notifiedNew, failedWith,
                   currentDocs, diffResult, dpc, fileVars, stepVars>>

Next == StartRun \/ ProcessSite \/ FinishRun

Spec == Init /\ [][Next]_vars

\* SpecSites: one execution of main() over a configuration of two enabled sites
InitSites ==
    /\ state = << >> /\ disk = << >>
    /\ currentDocs = << >> /\ diffResult = EmptyDiff /\ dpc = "none"
    /\ pc = "idle" /\ args = [dryRun |-> FALSE, notify |-> FALSE]
    /\ idx = 1 /\ results = << >> /\ now = 0 /\ exitCode = 0 /\ saves = 0
    /\ ev = EvNone /\ notifiedNew = [s \in Sites |-> {}]
    /\ failedWith = [s \in Sites |-> NoFailure]
    /\ config = << "s1", "s2" >>
    /\ file = NoFile /\ validation = NoValidation /\ vpc = "none"
    /\ dl = NoDownload /\ nav = NoNavigation /\ ex = NoExtraction

StartOnce == now = 0 /\ StartRun

NextSites == StartOnce \/ ProcessSite \/ FinishRun

SpecSites == InitSites /\ [][NextSites]_vars

-----------------------------------------------------------------------------
(* Downloader: the expected type and validateFile.  Buffers are sequences of
   bytes. *)

\* longest run of filler bytes between the leading bytes of a drawn buffer and
\* its marker
MaxPad == 100

\* buffer.slice(0, 100)
HeaderLen == 100
\* U+FFFD, what toString('utf-8') yields for a byte that is not ASCII
Replacement == 65533

\* MAGIC_NUMBERS, in the order of its keys
MagicTypes == << "pdf", "zip", "docx", "xlsx", "doc", "xls", "png", "jpg", "gif" >>

MagicBytes(type) ==
    CASE type = "pdf" -> << 37, 80, 68, 70 >>
      [] type \in {"zip", "docx", "xlsx"} -> << 80, 75, 3, 4 >>
      [] type \in {"doc", "xls"} -> << 208, 207, 17, 224 >>
      [] type = "png" -> << 137, 80, 78, 71 >>
      [] type = "jpg" -> << 255, 216, 255 >>
      [] type = "gif" -> << 71, 73, 70, 56 >>

HasMagic(type) == \E i \in 1..Len(MagicTypes) : MagicTypes[i] = type

HtmlSignaturesLower ==
    { << 60, 33, 100, 111, 99, 116, 121, 112, 101 >>,
      << 60, 104, 116, 109, 108 >>,
      << 60, 63, 120, 109, 108 >> }

\* HTML_SIGNATURES: '<!DOCTYPE', '<!doctype', '<html', '<HTML', '<?xml'
HtmlSignatures ==
    { << 60, 33, 68, 79, 67, 84, 89, 80, 69 >>,
      << 60, 33, 100, 111, 99, 116, 121, 112, 101 >>,
      << 60, 104, 116, 109, 108 >>,
      << 60, 72, 84, 77, 76 >>,
      << 60, 63, 120, 109, 108 >> }

\* buffer.slice(0, n)
Slice(buf, n) == SubSeq(buf, 1, IF Len(buf) < n THEN Len(buf) ELSE n)

\* toString('utf-8'), byte by byte: an ASCII byte is its character, any other
\* byte ends up in a character that is not ASCII
Utf8Decode(bytes) ==
    [i \in 1..Len(bytes) |-> IF bytes[i] < 128 THEN bytes[i] ELSE Replacement]

\* str.includes(sig)
Includes(str, sig) ==
    \E k \in 0..(Len(str) - Len(sig)) : \A j \in 1..Len(sig) : str[k + j] = sig[j]

StartsWithExact(buf, sig) == buf = sig

\* [...buffer.slice(0, bytes.length)] compared with bytes.every(...)
StartsWith(buf, sig) ==
    LET fileHeader == Slice(buf, Len(sig))
    IN \A i \in 1..Len(sig) : i <= Len(fileHeader) /\ fileHeader[i] = sig[i]

DetectFileTypeNone(buf) == NoType

\* detectFileType: the first type of MAGIC_NUMBERS whose bytes lead the buffer,
\* NoType for null
DetectFileType(buf) ==
    LET hits == {i \in 1..Len(MagicTypes) : StartsWith(buf, MagicBytes(MagicTypes[i]))}
    IN IF hits = {} THEN NoType
       ELSE MagicTypes[CHOOSE i \in hits : \A k \in hits : i <= k]

\* createHash('sha256').update(buffer).digest('hex'), taken as free of collisions
Sha256(buf) == << "sha256", buf >>

Invalid(reason) == [valid |-> FALSE, reason |-> reason, hash |-> << >>, size |-> 0]

ValidateFile(buffer, expectedType) ==
    IF Len(buffer) = 0 THEN Invalid(<< "empty_file" >>)
    ELSE IF \E sig \in HtmlSignatures : Includes(Utf8Decode(Slice(buffer, HeaderLen)), sig)
    THEN Invalid(<< "html_error_page" >>)
    ELSE IF /\ HasMagic(expectedType)
            /\ ~StartsWith(buffer, MagicBytes(expectedType))
            /\ DetectFileType(buffer) = NoType
    THEN Invalid(<< "invalid_magic_number_for_", expectedType >>)
    ELSE [valid |-> TRUE, reason |-> << >>, hash |-> Sha256(buffer), size |-> Len(buffer)]

\* path.extname(...).toLowerCase().replace('.', '')
ExtLower(ext) == CASE ext = "PDF" -> "pdf" [] OTHER -> ext

\* download: `if (!expectedType) expectedType = ext || 'pdf'`
ExpectedType(declared, ext) ==
    IF declared # NoType THEN declared
    ELSE IF ExtLower(ext) # NoType THEN ExtLower(ext) ELSE "pdf"

\* the buffers drawn: leading bytes, filler, a marker
Heads == { << >>, << 37, 80, 68, 70 >>, << 80, 75, 3, 4 >>, << 208, 207, 17, 224 >>,
           << 255, 216, 255 >>, << 37, 80 >>, << 123, 34 >> }
\* the markers a drawn buffer may hold: none, '<!DOCTYPE', '<!doctype', '<html',
\* '<HTML', '<?xml' and '<!DocType'
DocType == << 60, 33, 68, 79, 67, 84, 89, 80, 69 >>
ListedMarkers ==
    { DocType, << 60, 33, 100, 111, 99, 116, 121, 112, 101 >>, << 60, 104, 116, 109, 108 >>,
      << 60, 72, 84, 77, 76 >>, << 60, 63, 120, 109, 108 >> }
Markers == ListedMarkers \cup { << >>, << 60, 33, 68, 111, 99, 84, 121, 112, 101 >> }
Filler(n) == [i \in 1..n |-> IF i % 2 = 0 THEN 65 ELSE 233]
DeclaredTypes == {NoType, "pdf", "docx", "txt"}
UrlExts == {NoType, "PDF", "aspx"}

InitValidate ==
    /\ state = << >> /\ disk = << >>
    /\ currentDocs = << >> /\ diffResult = EmptyDiff /\ dpc = "none"
    /\ pc = "idle" /\ args = [dryRun |-> FALSE, notify |-> FALSE]
    /\ idx = 1 /\ results = << >> /\ now = 0 /\ exitCode = 0 /\ saves = 0
    /\ ev = EvNone /\ notifiedNew = [s \in Sites |-> {}]
    /\ failedWith = [s \in Sites |-> NoFailure]
    /\ config = << "s1" >>
    /\ \E h \in Heads, n \in 0..MaxPad, m \in Markers, d \in DeclaredTypes, e \in UrlExts :
          file = [buffer |-> h \o Filler(n) \o m, declared |-> d, ext |-> e]
    /\ validation = NoValidation
    /\ vpc = "call"
    /\ dl = NoDownload /\ nav = NoNavigation /\ ex = NoExtraction

\* download: the expected type, then validateFile on the saved file
Validate ==
    /\ vpc = "call"
    /\ validation' = [expectedType |-> ExpectedType(file.declared, file.ext),
                      result |-> ValidateFile(file.buffer,
                                              ExpectedType(file.declared, file.ext))]
    /\ vpc' = "done"
    /\ UNCHANGED <<file, diffVars, runVars, stepVars>>

NextValidate == Validate

SpecValidate == InitValidate /\ [][NextValidate]_vars

-----------------------------------------------------------------------------
(* withRetry around Downloader.download, for one new or updated document.
   dl.pc: "loop" at the head of the loop of withRetry, "fetch" in the catch
   block of download before downloadDirect, "caught" in the catch block of
   withRetry, "done" once download returned, "thrown" once withRetry threw.
   dl.cur is the call of download under way or last finished, dl.log the
   finished calls, dl.files the files in the download directory. *)

\* withRetry: `baseDelay = 1000`
BaseDelay == 1000
\* processSite: the 2 of `site.retries || 2`
DefaultRetries == 2

\* processSite: the retries argument of withRetry, `site.retries || 2`
RetriesArg(retries) == IF retries = Unset \/ retries = 0 THEN DefaultRetries ELSE retries

\* new DownloadError(message, url, reason), and an error of any other class
DownloadError(reason) == [name |-> "DownloadError", reason |-> reason]
OtherError == [name |-> "Error", reason |-> << >>]

\* the catch block of download, mutated: the direct fetch whatever was thrown
DownloadCatchAlways(error) == "direct"

\* the catch block of download: `if (error instanceof DownloadError) throw error;`
DownloadCatch(error) == IF error.name = "DownloadError" THEN "throw" ELSE "direct"

\* response.ok
Ok(status) == 200 <= status /\ status <= 299

\* 'text/html'
TextHtml == << 116, 101, 120, 116, 47, 104, 116, 109, 108 >>

\* the tests of downloadDirect on the response, mutated: the status only
ResponseRejectionStatusOnly(r) == IF ~Ok(r.status) THEN << "http_error" >> ELSE << >>

\* the tests of downloadDirect on the response: the reason it is rejected with
ResponseRejection(r) ==
    IF ~Ok(r.status) THEN << "http_error" >>
    ELSE IF Includes(r.contentType, TextHtml) THEN << "html_response" >>
    ELSE << >>

\* the bytes a download or a response body holds: none, '%PDF-', '<!DOCTYPE', '{"'
Bodies == { << >>, << 37, 80, 68, 70, 45 >>, DocType, << 123, 34 >> }
\* content-type: absent, 'application/pdf', 'text/html', 'text/html;' and 'TEXT/HTML'
ContentTypes ==
    { << >>, << 97, 112, 112, 108, 105, 99, 97, 116, 105, 111, 110, 47, 112, 100, 102 >>,
      TextHtml, TextHtml \o << 59 >>, << 84, 69, 88, 84, 47, 72, 84, 77, 76 >> }
Statuses == {200, 404}
Responses == [status : Statuses, contentType : ContentTypes, body : Bodies]

\* what the log keeps of a finished call of download
Summary(a) == [session |-> a.session, direct |-> a.direct, error |-> a.error]

InitDownload ==
    /\ state = << >> /\ disk = << >>
    /\ currentDocs = << >> /\ diffResult = EmptyDiff /\ dpc = "none"
    /\ pc = "idle" /\ args = [dryRun |-> FALSE, notify |-> FALSE]
    /\ idx = 1 /\ results = << >> /\ now = 0 /\ exitCode = 0 /\ saves = 0
    /\ ev = EvNone /\ notifiedNew = [s \in Sites |-> {}]
    /\ failedWith = [s \in Sites |-> NoFailure]
    /\ config = << "s1" >>
    /\ file = NoFile /\ validation = NoValidation /\ vpc = "none"
    /\ nav = NoNavigation /\ ex = NoExtraction
    /\ \E r \in {Unset} \cup 0..MaxRetries, e \in UrlExts :
          dl = [NoDownload EXCEPT !.pc = "loop", !.retries = r, !.limit = RetriesArg(r),
                                  !.type = ExpectedType(NoType, e)]

\* the call of download ends (pc "caught" or "done") or goes on to downloadDirect
Finish(a, p, files) ==
    dl' = [dl EXCEPT !.pc = p, !.cur = a, !.files = files,
                     !.log = IF p = "fetch" THEN @ ELSE Append(@, Summary(a)),
                     !.returned = (p = "done")]

\* withRetry calls fn: download, its try block and the `instanceof` test of its
\* catch block.  The download event arrives and the file is saved and validated,
\* or something in the block throws.
DownloadCall ==
    /\ dl.pc = "loop"
    /\ dl.attempt <= dl.limit
    /\ \/ \E b \in Bodies :
            LET v == ValidateFile(b, dl.type)
                err == DownloadError(v.reason)
            IN IF v.valid
               THEN Finish([NoAttempt EXCEPT !.session = "valid", !.saved = b], "done",
                           dl.files \cup {<<dl.attempt, "session">>})
               ELSE Finish([NoAttempt EXCEPT !.session = "rejected", !.saved = b,
                                             !.error = err],
                           IF DownloadCatch(err) = "throw" THEN "caught" ELSE "fetch",
                           (dl.files \cup {<<dl.attempt, "session">>})
                               \ {<<dl.attempt, "session">>})
       \/ Finish([NoAttempt EXCEPT !.session = "failed", !.error = OtherError],
                 IF DownloadCatch(OtherError) = "throw" THEN "caught" ELSE "fetch",
                 dl.files)
    /\ UNCHANGED <<diffVars, runVars, fileVars, nav, ex>>

\* downloadDirect: fetch throws, or the response is tested, written, validated
DownloadDirect ==
    /\ dl.pc = "fetch"
    /\ \/ Finish([dl.cur EXCEPT !.direct = @ + 1, !.error = OtherError], "caught", dl.files)
       \/ \E r \in Responses :
            LET rejection == ResponseRejection(r)
                v == ValidateFile(r.body, dl.type)
                a == [dl.cur EXCEPT !.direct = @ + 1, !.response = r]
                written == dl.files \cup {<<dl.attempt, "direct">>}
            IN IF rejection # << >>
               THEN Finish([a EXCEPT !.error = DownloadError(rejection)], "caught", dl.files)
               ELSE IF ~v.valid
               THEN Finish([a EXCEPT !.written = 1, !.validated = 1,
                                     !.error = DownloadError(v.reason)],
                           "caught", written \ {<<dl.attempt, "direct">>})
               ELSE Finish([a EXCEPT !.written = 1, !.validated = 1, !.error = NoThrow],
                           "done", written)
    /\ UNCHANGED <<diffVars, runVars, fileVars, nav, ex>>

\* the catch block of withRetry: the delay and the next turn of the loop, or,
\* after the last attempt, `throw lastError`
WithRetryCatch ==
    /\ dl.pc = "caught"
    /\ dl' = IF dl.attempt < dl.limit
             THEN [dl EXCEPT !.delays = Append(@, BaseDelay * 2^dl.attempt),
                             !.attempt = @ + 1, !.pc = "loop"]
             ELSE [dl EXCEPT !.attempt = @ + 1, !.pc = "thrown"]
    /\ UNCHANGED <<diffVars, runVars, fileVars, nav, ex>>

NextDownload == DownloadCall \/ DownloadDirect \/ WithRetryCatch

SpecDownload == InitDownload /\ [][NextDownload]_vars

-----------------------------------------------------------------------------
(* Navigator.navigate over the steps of a site.
   nav.pc: "step" at the head of the loop over the attempts of step nav.i,
   "wait" before page.waitForTimeout, "exhausted" after the loop of a step
   that did not succeed, "done" once navigate returned, "failed" once it threw.
   nav.log holds one entry per call of executeStep: the step (from 1), the
   attempt (from 0), whether it returned, the wait that followed (0: none). *)

\* the 1 of `step.retries ?? 1`
DefaultStepRetries == 1
\* the 1000 of `page.waitForTimeout(1000 * (attempt + 1))`
StepDelay == 1000

\* maxRetries, mutated: `step.retries || 1`
MaxRetriesOfOr(step) ==
    IF step.retries = Unset \/ step.retries = 0 THEN DefaultStepRetries ELSE step.retries

\* `const maxRetries = step.retries ?? 1`
MaxRetriesOf(step) == IF step.retries = Unset THEN DefaultStepRetries ELSE step.retries

\* the steps of a site configuration, by what navigate reads of them
\* their action is one of the switch of executeStep ('click') or none of them
\* ('clik')
NavSteps ==
    {[action |-> a, retries |-> r, optional |-> o] :
        a \in {"click", "clik"}, r \in {Unset} \cup 0..MaxRetries, o \in BOOLEAN}

\* the cases of the switch of executeStep, as far as the steps drawn go
KnownAction(action) == action = "click"

\* what executeStep throws: the error of the page operation, or that of the
\* default case
StepError(step) ==
    IF KnownAction(step.action) THEN << "Timeout 30000ms exceeded" >>
    ELSE << "Unknown action: ", step.action >>

\* `if (step.optional) continue`, mutated: never
ContinuesNever(step) == FALSE

\* `if (step.optional) continue`
Continues(step) == step.optional

\* the diagnostics of a failed step: page.screenshot and page.content both
\* return ("both"), page.content throws ("screenshot"), page.screenshot throws
\* ("none")
Captures == {"both", "screenshot", "none"}

InitNavigate ==
    /\ state = << >> /\ disk = << >>
    /\ currentDocs = << >> /\ diffResult = EmptyDiff /\ dpc = "none"
    /\ pc = "idle" /\ args = [dryRun |-> FALSE, notify |-> FALSE]
    /\ idx = 1 /\ results = << >> /\ now = 0 /\ exitCode = 0 /\ saves = 0
    /\ ev = EvNone /\ notifiedNew = [s \in Sites |-> {}]
    /\ failedWith = [s \in Sites |-> NoFailure]
    /\ config = << "s1" >>
    /\ file = NoFile /\ validation = NoValidation /\ vpc = "none"
    /\ dl = NoDownload /\ ex = NoExtraction
    /\ \E steps \in SeqUpTo(NavSteps, MaxSteps) :
          nav = [NoNavigation EXCEPT !.pc = "step", !.steps = steps]

\* one turn of the inner loop: executeStep returns or throws
ExecuteStep ==
    /\ nav.pc = "step"
    /\ nav.i <= Len(nav.steps)
    /\ nav.attempt <= MaxRetriesOf(nav.steps[nav.i])
    /\ \E ok \in (IF KnownAction(nav.steps[nav.i].action) THEN BOOLEAN ELSE {FALSE}) :
          nav' = [nav EXCEPT
                    !.log = Append(@, [step |-> nav.i, attempt |-> nav.attempt,
                                       ok |-> ok, wait |-> 0]),
                    !.lastError = IF ok THEN << >> ELSE StepError(nav.steps[nav.i]),
                    !.operated = IF KnownAction(nav.steps[nav.i].action)
                                 THEN @ \cup {nav.i} ELSE @,
                    !.i = IF ok THEN @ + 1 ELSE @,
                    !.attempt = IF ok THEN 0 ELSE @,
                    !.pc = IF ok THEN "step"
                           ELSE IF nav.attempt < MaxRetriesOf(nav.steps[nav.i])
                                THEN "wait" ELSE "exhausted"]
    /\ UNCHANGED <<diffVars, runVars, fileVars, dl, ex>>

\* `await page.waitForTimeout(1000 * (attempt + 1))`, then attempt++
WaitForTimeout ==
    /\ nav.pc = "wait"
    /\ nav' = [nav EXCEPT !.log[Len(nav.log)].wait = StepDelay * (nav.attempt + 1),
                          !.attempt = @ + 1, !.pc = "step"]
    /\ UNCHANGED <<diffVars, runVars, fileVars, dl, ex>>

\* `if (!success)`: an optional step is passed over, any other throws
\* NavigationError with the index of the step
StepFailed ==
    /\ nav.pc = "exhausted"
    /\ \E capture \in Captures :
          nav' = IF Continues(nav.steps[nav.i])
                 THEN [nav EXCEPT !.skipped = @ \cup {nav.i}, !.i = @ + 1, !.attempt = 0,
                                  !.pc = "step", !.lastError = << >>]
                 ELSE [nav EXCEPT !.pc = "failed", !.stepIndex = nav.i - 1,
                                  !.capture = capture,
                                  !.error = [name |-> NavigationErrorName,
                                             message |-> << "Navigation step failed: ",
                                                            nav.steps[nav.i].action, " - " >>
                                                         \o nav.lastError,
                                             action |-> nav.steps[nav.i].action,
                                             stepIndex |-> nav.i - 1,
                                             screenshot |-> capture \in {"both", "screenshot"},
                                             html |-> capture = "both"]]
    /\ UNCHANGED <<diffVars, runVars, fileVars, dl, ex>>

\* the loop over the steps ends: navigate returns
NavigateReturn ==
    /\ nav.pc = "step"
    /\ nav.i > Len(nav.steps)
    /\ nav' = [nav EXCEPT !.pc = "done"]
    /\ UNCHANGED <<diffVars, runVars, fileVars, dl, ex>>

NextNavigate == ExecuteStep \/ WaitForTimeout \/ StepFailed \/ NavigateReturn

SpecNavigate == InitNavigate /\ [][NextNavigate]_vars

-----------------------------------------------------------------------------
(* Extractor.  Strings are sequences of char codes; null, undefined and ''
   are all the empty sequence (the code tests them by truthiness only).
   ex.op names the method called, ex.pc is "call" before it and "done" after. *)

\* String.prototype.trim, the space being the white space of the model
RECURSIVE TrimStart(_)
TrimStart(str) == IF str # << >> /\ Head(str) = 32 THEN TrimStart(Tail(str)) ELSE str
Reverse(str) == [i \in 1..Len(str) |-> str[Len(str) + 1 - i]]
Trim(str) == Reverse(TrimStart(Reverse(TrimStart(str))))

\* .replace(/\s+/g, ' ')
RECURSIVE CollapseSpaces(_)
CollapseSpaces(str) ==
    IF Len(str) < 2 THEN str
    ELSE IF str[1] = 32 /\ str[2] = 32 THEN CollapseSpaces(Tail(str))
    ELSE << str[1] >> \o CollapseSpaces(Tail(str))

\* String.prototype.toLowerCase on ASCII
ToLowerCase(str) ==
    [i \in 1..Len(str) |-> IF str[i] >= 65 /\ str[i] <= 90 THEN str[i] + 32 ELSE str[i]]

\* value.match(new RegExp(regex))[1] for the regex '(\d+)' of the model: the
\* first run of digits, empty when there is no match
IsDigit(c) == c >= 48 /\ c <= 57
RECURSIVE TakeDigits(_)
TakeDigits(str) ==
    IF str # << >> /\ IsDigit(Head(str)) THEN << Head(str) >> \o TakeDigits(Tail(str))
    ELSE << >>
RECURSIVE RegexMatch(_)
RegexMatch(str) ==
    IF str = << >> THEN << >>
    ELSE IF IsDigit(Head(str)) THEN TakeDigits(str) ELSE RegexMatch(Tail(str))

\* document.baseURI: 'h:/'
BaseUri == << 104, 58, 47 >>
\* new URL(str) does not throw: str begins with the scheme 'h:'
IsAbsolute(str) == StartsWith(str, << 104, 58 >>)
\* new URL(val, document.baseURI).href
AbsoluteUrl(val) == IF IsAbsolute(val) THEN val ELSE BaseUri \o val

IndexOf(str, c) ==
    IF \E i \in 1..Len(str) : str[i] = c
    THEN CHOOSE i \in 1..Len(str) : str[i] = c /\ \A j \in 1..(i - 1) : str[j] # c
    ELSE 0
RECURSIVE Split(_, _)
Split(str, c) ==
    IF IndexOf(str, c) = 0 THEN << str >>
    ELSE << SubSeq(str, 1, IndexOf(str, c) - 1) >>
         \o Split(SubSeq(str, IndexOf(str, c) + 1, Len(str)), c)
RECURSIVE Join(_, _)
Join(parts, c) ==
    IF parts = << >> THEN << >>
    ELSE IF Len(parts) = 1 THEN parts[1]
    ELSE parts[1] \o << c >> \o Join(Tail(parts), c)

\* '_', 'v', 'cache', 'timestamp', 't', 'rand'
CacheParams ==
    { << 95 >>, << 118 >>, << 99, 97, 99, 104, 101 >>,
      << 116, 105, 109, 101, 115, 116, 97, 109, 112 >>, << 116 >>,
      << 114, 97, 110, 100 >> }

\* the name of a 'name=value' pair of the query
ParamName(pair) ==
    IF IndexOf(pair, 61) = 0 THEN pair ELSE SubSeq(pair, 1, IndexOf(pair, 61) - 1)
KeepParam(pair) == ParamName(pair) \notin CacheParams

\* url.searchParams.delete(param) for each cache parameter, then url.href
DeleteCacheParams(url) ==
    IF IndexOf(url, 63) = 0 THEN url
    ELSE LET base == SubSeq(url, 1, IndexOf(url, 63) - 1)
             kept == SelectSeq(Split(SubSeq(url, IndexOf(url, 63) + 1, Len(url)), 38),
                               KeepParam)
         IN IF kept = << >> THEN base ELSE base \o << 63 >> \o Join(kept, 38)

\* normalizeDocument, mutated: without `if (!doc.url) return null`
NormalizeDocumentKeepsAll(doc) ==
    [null |-> FALSE,
     doc |-> [doc EXCEPT !.title = Trim(CollapseSpaces(@)),
                         !.url = IF IsAbsolute(@) THEN DeleteCacheParams(@) ELSE @]]

\* normalizeDocument: null for a document without url; the title cleaned, the
\* cache parameters deleted when `new URL(doc.url)` does not throw
NormalizeDocument(doc) ==
    IF doc.url = << >> THEN [null |-> TRUE, doc |-> doc]
    ELSE [null |-> FALSE,
          doc |-> [doc EXCEPT !.title = Trim(CollapseSpaces(@)),
                              !.url = IF IsAbsolute(@) THEN DeleteCacheParams(@) ELSE @]]

\* urlTemplate.replace('{value}', value) for the template 'h:/g?t=0&i={value}'
UrlTemplate(value) == << 104, 58, 47, 103, 63, 116, 61, 48, 38, 105, 61 >> \o value

\* what extractField gives: it throws ExtractionError or returns a value
FieldThrown == [thrown |-> TRUE, value |-> << >>]
FieldValue(v) == [thrown |-> FALSE, value |-> v]

\* extractField on the element `target` ([found, value]: whether element.$
\* finds it, and its attribute, property or text) with the field config cfg
ExtractField(target, cfg) ==
    IF ~target.found
    THEN IF cfg.optional THEN FieldValue(<< >>) ELSE FieldThrown
    ELSE LET read == IF cfg.attribute = "href" /\ target.value # << >>
                     THEN AbsoluteUrl(target.value) ELSE target.value
         IN IF read # << >> /\ cfg.regex /\ RegexMatch(read) = << >>
            THEN IF cfg.optional THEN FieldValue(<< >>) ELSE FieldThrown
            ELSE LET matched == IF read # << >> /\ cfg.regex THEN RegexMatch(read) ELSE read
                     value == IF matched # << >> /\ cfg.template
                              THEN UrlTemplate(matched) ELSE matched
                 IN FieldValue(Trim(value))

\* the element a field's selector points at: the url field of kind "template"
\* reads the text the title field reads, any other the link
TargetOf(item, field, cfg) ==
    IF field = "title" \/ cfg.template THEN item.text ELSE item.link

NewDoc(title, url) == [title |-> title, url |-> url, intermediateUrl |-> << >>]

\* extractDocument: the fields in the order of the config, then normalizeDocument
ExtractDocument(item, fields) ==
    LET t == ExtractField(TargetOf(item, "title", fields.title), fields.title)
        u == ExtractField(TargetOf(item, "url", fields.url), fields.url)
    IN IF (t.thrown /\ ~fields.title.optional) \/ (u.thrown /\ ~fields.url.optional)
       THEN [thrown |-> TRUE, null |-> FALSE, doc |-> NewDoc(<< >>, << >>)]
       ELSE LET n == NormalizeDocument(NewDoc(IF t.thrown THEN << >> ELSE t.value,
                                              IF u.thrown THEN << >> ELSE u.value))
            IN [thrown |-> FALSE, null |-> n.null, doc |-> n.doc]

\* doc[field] || ''
DocField(doc, field) ==
    CASE field = "title" -> doc.title [] field = "url" -> doc.url [] OTHER -> << >>

\* filterPatterns not configured
NoFilter == [field |-> "", patterns |-> << >>, mode |-> ""]

\* matchesPattern, mutated: the cases are compared as written
MatchesPatternExact(doc, cfg) ==
    \E k \in 1..Len(cfg.patterns) : Includes(DocField(doc, cfg.field), cfg.patterns[k])

MatchesPattern(doc, cfg) ==
    \E k \in 1..Len(cfg.patterns) :
        Includes(ToLowerCase(DocField(doc, cfg.field)), ToLowerCase(cfg.patterns[k]))

RECURSIVE FilterLoop(_, _, _)
FilterLoop(documents, cfg, i) ==
    IF i > Len(documents) THEN << >>
    ELSE (IF (cfg.mode = "include") = MatchesPattern(documents[i], cfg)
          THEN << documents[i] >> ELSE << >>)
         \o FilterLoop(documents, cfg, i + 1)

\* applyFilters
ApplyFilters(documents, cfg) ==
    IF cfg.field = "" \/ cfg.patterns = << >> THEN documents
    ELSE FilterLoop(documents, cfg, 1)

\* the loop of extract over the items, mutated: the first item that throws ends
\* the loop
RECURSIVE ExtractLoopAborts(_, _, _)
ExtractLoopAborts(items, fields, i) ==
    IF i > Len(items) THEN << >>
    ELSE LET d == ExtractDocument(items[i], fields)
         IN IF d.thrown THEN << >>
            ELSE (IF ~d.null /\ (d.doc.url # << >> \/ d.doc.title # << >>)
                  THEN << d.doc >> ELSE << >>)
                 \o ExtractLoopAborts(items, fields, i + 1)

\* the loop of extract over the items: try extractDocument, push `doc` when
\* `doc && (doc.url || doc.title)`, catch and go on
RECURSIVE ExtractLoop(_, _, _)
ExtractLoop(items, fields, i) ==
    IF i > Len(items) THEN << >>
    ELSE LET d == ExtractDocument(items[i], fields)
         IN (IF ~d.thrown /\ ~d.null /\ (d.doc.url # << >> \/ d.doc.title # << >>)
             THEN << d.doc >> ELSE << >>)
            \o ExtractLoop(items, fields, i + 1)

\* extract
Extract(items, extraction) ==
    IF items = << >> THEN << >>
    ELSE IF extraction.filterPatterns # NoFilter
         THEN ApplyFilters(ExtractLoop(items, extraction.fields, 1),
                           extraction.filterPatterns)
         ELSE ExtractLoop(items, extraction.fields, 1)

\* the body of the loop of resolveDeepLinks, mutated: the original url is not
\* kept
ResolveOneForgetful(doc, outcome) ==
    IF ~outcome.failed /\ outcome.realUrl # << >>
    THEN [doc EXCEPT !.url = outcome.realUrl]
    ELSE doc

\* resolveDeepLinks, the body of its loop for one document: outcome.failed when
\* goto, waitForSelector or $eval throws, outcome.realUrl what $eval returns
ResolveOne(doc, outcome) ==
    IF ~outcome.failed /\ outcome.realUrl # << >>
    THEN [doc EXCEPT !.intermediateUrl = doc.url, !.url = outcome.realUrl]
    ELSE doc

\* resolveDeepLinks
ResolveDeepLinks(documents, deepSearch, outcomes) ==
    IF ~deepSearch.enabled THEN documents
    ELSE [i \in 1..Len(documents) |-> ResolveOne(documents[i], outcomes[i])]

\* the quiet values of the other specifications
QuietButEx ==
    /\ state = << >> /\ disk = << >>
    /\ currentDocs = << >> /\ diffResult = EmptyDiff /\ dpc = "none"
    /\ pc = "idle" /\ args = [dryRun |-> FALSE, notify |-> FALSE]
    /\ idx = 1 /\ results = << >> /\ now = 0 /\ exitCode = 0 /\ saves = 0
    /\ ev = EvNone /\ notifiedNew = [s \in Sites |-> {}]
    /\ failedWith = [s \in Sites |-> NoFailure]
    /\ config = << "s1" >>
    /\ file = NoFile /\ validation = NoValidation /\ vpc = "none"
    /\ dl = NoDownload /\ nav = NoNavigation

\* the text of an item: none, ' A  b' and 'a7'; its link: none,
\* 'h:/a?t=1&i=2' and 'a?i=2&rand=3'
Texts == { << >>, << 32, 65, 32, 32, 98 >>, << 97, 55 >> }
Links == { << >>, << 104, 58, 47, 97, 63, 116, 61, 49, 38, 105, 61, 50 >>,
           << 97, 63, 105, 61, 50, 38, 114, 97, 110, 100, 61, 51 >> }
Elements(values) == {[found |-> FALSE, value |-> << >>]}
                    \cup {[found |-> TRUE, value |-> v] : v \in values}
Items == [text : Elements(Texts), link : Elements(Links)]

\* the configs of the two fields: title from the text, with or without regex;
\* url from the href attribute, from a property, or from the text through the
\* regex and the template
TitleFields ==
    {[optional |-> o, attribute |-> "", regex |-> r, template |-> FALSE] :
        o \in BOOLEAN, r \in BOOLEAN}
UrlFields ==
    {[optional |-> o, attribute |-> k.attribute, regex |-> k.template,
      template |-> k.template] :
        o \in BOOLEAN,
        k \in {[attribute |-> "href", template |-> FALSE],
               [attribute |-> "", template |-> FALSE],
               [attribute |-> "", template |-> TRUE]}}
\* filterPatterns: none, or the titles that contain 'a'
Filters == {NoFilter, [field |-> "title", patterns |-> << << 97 >> >>, mode |-> "include"]}

InitExtract ==
    /\ QuietButEx
    /\ \E items \in SeqUpTo(Items, MaxItems), t \in TitleFields, u \in UrlFields,
          f \in Filters :
          ex = [NoExtraction EXCEPT
                  !.pc = "call", !.op = "extract", !.input = items,
                  !.config = [fields |-> [title |-> t, url |-> u], filterPatterns |-> f]]

\* extractor.extract(page, site.extraction)
ExtractCall ==
    /\ ex.pc = "call" /\ ex.op = "extract"
    /\ ex' = [ex EXCEPT !.pc = "done", !.result = Extract(ex.input, ex.config)]
    /\ UNCHANGED <<diffVars, runVars, fileVars, dl, nav>>

NextExtract == ExtractCall

SpecExtract == InitExtract /\ [][NextExtract]_vars

\* the documents filtered: with and without title ('Ab', 'a7', 'x')
FilterDocs ==
    {NewDoc(t, << 104, 58, 47, 97 >>) :
        t \in { << >>, << 65, 98 >>, << 97, 55 >>, << 120 >> }}
\* the pattern lists: none, 'a', 'B' and '7', the empty pattern, 'x' and the
\* empty pattern
PatternLists ==
    { << >>, << << 97 >> >>, << << 66 >>, << 55 >> >>, << << >> >>,
      << << 120 >>, << >> >> }
FilterConfigs ==
    [field : {"title", "date"}, patterns : PatternLists, mode : {"include", "exclude"}]

InitFilter ==
    /\ QuietButEx
    /\ \E documents \in SeqUpTo(FilterDocs, MaxItems), cfg \in FilterConfigs :
          ex = [NoExtraction EXCEPT
                  !.pc = "call", !.op = "applyFilters", !.input = documents,
                  !.config = cfg]

\* this.applyFilters(documents, filterPatterns)
ApplyFiltersCall ==
    /\ ex.pc = "call" /\ ex.op = "applyFilters"
    /\ ex' = [ex EXCEPT !.pc = "done", !.result = ApplyFilters(ex.input, ex.config)]
    /\ UNCHANGED <<diffVars, runVars, fileVars, dl, nav>>

NextFilter == ApplyFiltersCall

SpecFilter == InitFilter /\ [][NextFilter]_vars

\* the documents extract hands over: 'h:/a?i=2' and 'h:/b', with and without
\* title
ExtractedDocs ==
    {NewDoc(t, u) : t \in { << >>, << 65 >> },
                    u \in { << 104, 58, 47, 97, 63, 105, 61, 50 >>, << 104, 58, 47, 98 >> }}
\* what the intermediate page gives: nothing, 'h:/f' or 'h:/f?t=9'
RealUrls == { << >>, << 104, 58, 47, 102 >>, << 104, 58, 47, 102, 63, 116, 61, 57 >> }
DeepOutcomes ==
    {[failed |-> TRUE, realUrl |-> << >>]}
    \cup {[failed |-> FALSE, realUrl |-> u] : u \in RealUrls}

InitDeepLinks ==
    /\ QuietButEx
    /\ \E documents \in SeqUpTo(ExtractedDocs, MaxItems), enabled \in BOOLEAN :
          ex = [NoExtraction EXCEPT
                  !.pc = "call", !.op = "resolveDeepLinks", !.input = documents,
                  !.config = [enabled |-> enabled]]

\* extractor.resolveDeepLinks(page, documents, site.extraction.deepSearch); its
\* result is what processSite gives to stateManager.diff
ResolveDeepLinksCall ==
    /\ ex.pc = "call" /\ ex.op = "resolveDeepLinks"
    /\ \E outcomes \in [1..Len(ex.input) -> DeepOutcomes] :
          ex' = [ex EXCEPT !.pc = "done",
                           !.outcomes = IF ex.config.enabled THEN outcomes ELSE << >>,
                           !.result = ResolveDeepLinks(ex.input, ex.config, outcomes)]
    /\ UNCHANGED <<diffVars, runVars, fileVars, dl, nav>>

NextDeepLinks == ResolveDeepLinksCall

SpecDeepLinks == InitDeepLinks /\ [][NextDeepLinks]_vars

-----------------------------------------------------------------------------
(* Properties of diff, stated on the finished call *)

\* the stored snapshot the call compared against
PrevDocs == IF "s1" \in DOMAIN state THEN state["s1"].documents ELSE << >>

InSeq(x, seq) == \E i \in 1..Len(seq) : seq[i] = x
InNew(d) == InSeq(d, diffResult.new)
InUnchanged(d) == InSeq(d, diffResult.unchanged)
InUpdated(d) == \E i \in 1..Len(diffResult.updated) : diffResult.updated[i].doc = d
InUpdatedAs(d, p, r) == InSeq([doc |-> d, previousDoc |-> p, reason |-> r], diffResult.updated)

OnlyUnchanged(d) == InUnchanged(d) /\ ~InNew(d) /\ ~InUpdated(d)
OnlyNew(d) == InNew(d) /\ ~InUnchanged(d) /\ ~InUpdated(d)
OnlyUpdated(d) == InUpdated(d) /\ ~InNew(d) /\ ~InUnchanged(d)

\* record j is the one the URL index keeps for its URL: no later record has it
LastOfUrl(j) == \A k \in (j + 1)..Len(PrevDocs) : PrevDocs[k].url # PrevDocs[j].url

SameUrlEqualHash(i, j) ==
    /\ currentDocs[i].url = PrevDocs[j].url
    /\ currentDocs[i].hash # NoHash
    /\ currentDocs[i].hash = PrevDocs[j].hash

SameUrlOtherHash(i, j) ==
    /\ currentDocs[i].url = PrevDocs[j].url
    /\ currentDocs[i].hash # NoHash
    /\ PrevDocs[j].hash # NoHash
    /\ currentDocs[i].hash # PrevDocs[j].hash

NoUrlMatch(i) == \A j \in 1..Len(PrevDocs) : PrevDocs[j].url # currentDocs[i].url

TitleMatch(i, j) ==
    /\ currentDocs[i].title # NoTitle
    /\ PrevDocs[j].title # NoTitle
    /\ ToLower(currentDocs[i].title) = ToLower(PrevDocs[j].title)

\* C1 as stated: a current document and ANY previous record with the same URL and
\* equal non-empty hashes make the current document unchanged, also when the
\* snapshot holds several records with that URL.
C1_AnyRecordUnchanged ==
    dpc = "done" =>
        \A i \in 1..Len(currentDocs) : \A j \in 1..Len(PrevDocs) :
            SameUrlEqualHash(i, j) => OnlyUnchanged(currentDocs[i])

\* C1 amended: a current document and the LAST previous record with its URL (the
\* one the URL index keeps), with equal non-empty hashes, make the current
\* document unchanged: it is in `unchanged` and in neither `new` nor `updated`.
C1_LastRecordUnchanged ==
    dpc = "done" =>
        \A i \in 1..Len(currentDocs) : \A j \in 1..Len(PrevDocs) :
            (SameUrlEqualHash(i, j) /\ LastOfUrl(j)) => OnlyUnchanged(currentDocs[i])

\* C1 witness: the call is over, the snapshot holds two records with the URL of a
\* current document, the last has its non-empty hash, the document is unchanged.
C1_Witness ==
    /\ dpc = "done"
    /\ \E i \in 1..Len(currentDocs) : \E j \in 1..Len(PrevDocs) : \E k \in 1..(j - 1) :
          /\ SameUrlEqualHash(i, j) /\ LastOfUrl(j)
          /\ PrevDocs[k].url = PrevDocs[j].url
          /\ PrevDocs[k].hash # PrevDocs[j].hash
          /\ InUnchanged(currentDocs[i])

\* C2 as stated: a current document and ANY previous record with the same URL and
\* differing non-empty hashes make the current document updated/hash_changed with
\* previousDoc that record.
C2_AnyRecordHashChanged ==
    dpc = "done" =>
        \A i \in 1..Len(currentDocs) : \A j \in 1..Len(PrevDocs) :
            SameUrlOtherHash(i, j) =>
                /\ OnlyUpdated(currentDocs[i])
                /\ InUpdatedAs(currentDocs[i], PrevDocs[j], "hash_changed")

\* C2 amended: a current document and the LAST previous record with its URL, both
\* with non-empty hashes that differ, make the current document updated with
\* reason hash_changed and previousDoc that record.
C2_LastRecordHashChanged ==
    dpc = "done" =>
        \A i \in 1..Len(currentDocs) : \A j \in 1..Len(PrevDocs) :
            (SameUrlOtherHash(i, j) /\ LastOfUrl(j)) =>
                /\ OnlyUpdated(currentDocs[i])
                /\ InUpdatedAs(currentDocs[i], PrevDocs[j], "hash_changed")

\* C2 witness: a current document was reported updated/hash_changed against the
\* last record of its URL, whose non-empty hash differs from its own.
C2_Witness ==
    /\ dpc = "done"
    /\ \E i \in 1..Len(currentDocs) : \E j \in 1..Len(PrevDocs) :
          /\ SameUrlOtherHash(i, j) /\ LastOfUrl(j)
          /\ InUpdatedAs(currentDocs[i], PrevDocs[j], "hash_changed")

\* C3: a current document whose URL matches no previous record and whose title
\* equals a previous record's title ignoring case is updated with reason
\* url_changed, with or without hashes.
C3_TitleMatchUrlChanged ==
    dpc = "done" =>
        \A i \in 1..Len(currentDocs) :
            (NoUrlMatch(i) /\ \E j \in 1..Len(PrevDocs) : TitleMatch(i, j)) =>
                /\ OnlyUpdated(currentDocs[i])
                /\ \E u \in 1..Len(diffResult.updated) :
                      /\ diffResult.updated[u].doc = currentDocs[i]
                      /\ diffResult.updated[u].reason = "url_changed"
                /\ \A u \in 1..Len(diffResult.updated) :
                      diffResult.updated[u].doc = currentDocs[i]
                          => diffResult.updated[u].reason = "url_changed"

\* C3 witness: a hashless current document was reported url_changed against a
\* hashless previous record whose title differs from its own only in case.
C3_Witness ==
    /\ dpc = "done"
    /\ \E i \in 1..Len(currentDocs) : \E j \in 1..Len(PrevDocs) :
          /\ NoUrlMatch(i) /\ TitleMatch(i, j)
          /\ currentDocs[i].title # PrevDocs[j].title
          /\ currentDocs[i].hash = NoHash /\ PrevDocs[j].hash = NoHash
          /\ InUpdatedAs(currentDocs[i], PrevDocs[j], "url_changed")

\* C4: a current document that matches no previous record by URL and none by
\* case-insensitive title is new (so is every untitled document without a URL
\* match, and every document when the snapshot is empty).
C4_NoMatchIsNew ==
    dpc = "done" =>
        \A i \in 1..Len(currentDocs) :
            (NoUrlMatch(i) /\ \A j \in 1..Len(PrevDocs) : ~TitleMatch(i, j)) =>
                OnlyNew(currentDocs[i])

\* C4 witness: an untitled current document without a URL match was reported new
\* although the snapshot is not empty and holds an untitled record.
C4_Witness ==
    /\ dpc = "done"
    /\ \E i \in 1..Len(currentDocs) : \E j \in 1..Len(PrevDocs) :
          /\ NoUrlMatch(i)
          /\ currentDocs[i].title = NoTitle /\ PrevDocs[j].title = NoTitle
          /\ InNew(currentDocs[i])

-----------------------------------------------------------------------------
(* Properties of processSite and main, stated on the observation `ev` of the
   latest processSite call *)

\* the site state in memory after the observed call
After == SiteStateOf(state, ev.site)

\* record j of the snapshot the call started from is the one the URL index keeps
LastOfUrlIn(docs, j) == \A k \in (j + 1)..Len(docs) : docs[k].url # docs[j].url

\* notifier calls of the observed processSite call, by kind
CallsOfKind(kind) == {k \in 1..Len(ev.calls) : ev.calls[k].kind = kind}

\* C5: when the stored snapshot holds a document with URL u and hash h, the page
\* still lists u and the file served at u now hashes to another value, a
\* successful non-dry processSite reports the document updated/hash_changed and
\* sends an updated-document notification for it.
C5_SilentUpdateDetected ==
    (ev.kind = "ok" /\ ~args.dryRun) =>
        \A i \in 1..Len(ev.listing) : \A j \in 1..Len(ev.prev.documents) :
            ( /\ ev.prev.documents[j].url = ev.listing[i].url
              /\ LastOfUrlIn(ev.prev.documents, j)
              /\ ev.prev.documents[j].hash # NoHash
              /\ ev.served[ev.listing[i].url] # ev.prev.documents[j].hash )
            => /\ \E u \in 1..Len(ev.diff.updated) :
                    /\ ev.diff.updated[u].doc = ev.listing[i]
                    /\ ev.diff.updated[u].reason = "hash_changed"
               /\ \E k \in CallsOfKind("hash_changed") : ev.calls[k].url = ev.listing[i].url

\* C6: when a non-dry execution saves after a successful processSite, every
\* document that call classified unchanged keeps, in the saved snapshot, the
\* firstSeen of the record it matched in the snapshot saved before.
C6_FirstSeenPreserved ==
    [][ ( /\ pc = "sites" /\ pc' = "idle" /\ saves' = saves + 1
          /\ ev.kind = "ok" /\ ev.site \in DOMAIN disk )
        => \A i \in 1..Len(ev.diff.unchanged) :
             \A j \in 1..Len(disk[ev.site].documents) :
               ( /\ disk[ev.site].documents[j].url = ev.diff.unchanged[i].url
                 /\ LastOfUrlIn(disk[ev.site].documents, j) )
               => disk'[ev.site].documents[Len(ev.diff.new) + Len(ev.diff.updated) + i].firstSeen
                     = disk[ev.site].documents[j].firstSeen
      ]_vars

\* C7: over non-dry executions, a document the page has listed ever since it was
\* delivered as new by an earlier execution is not delivered as new again.
C7_NewNotifiedOnce == ev.renotified = {}

\* C8: when a site fails in two consecutive non-dry executions with the same
\* error name, message and step, the second failure makes no error notification
\* call and leaves lastError with the fingerprint of both and a
\* consecutiveCount of at least 2.
C8_RepeatSuppressed ==
    ( /\ ev.kind \in {"fail", "crash"}
      /\ ~args.dryRun
      /\ ev.prevFailure.failed /\ ~ev.prevFailure.dry
      /\ ev.prevFailure.err = ev.error )
    => /\ CallsOfKind("error") = {}
       /\ After.lastError.fingerprint = CreateErrorFingerprint(ev.prevFailure.err)
       /\ After.lastError.consecutiveCount >= 2

\* C9: a failure whose message differs from the message of the stored lastError
\* gets another fingerprint than the stored one: it is not a duplicate, the count
\* is 1 and, when notifications are on, the error notification is called.
C9_OtherMessageOtherFingerprint ==
    ( /\ ev.kind \in {"fail", "crash"}
      /\ ev.prev.lastError # NoError
      /\ ev.prev.lastError.message # ev.error.message )
    => /\ After.lastError.fingerprint # ev.prev.lastError.fingerprint
       /\ ~ev.dup
       /\ After.lastError.consecutiveCount = 1
       /\ ShouldNotify => CallsOfKind("error") # {}

\* C10: after a processSite call that returns success (documents found or none),
\* the lastError of the site is empty.
C10_SuccessClearsLastError ==
    ev.kind \in {"ok", "zero"} => After.lastError = NoError

\* the documents of the two loops of the observed call whose download failed
\* (every attempt of withRetry)
DownloadFailed == {i \in 1..Len(ev.run) : ~ev.run[i].dl}

\* the observed call went through diff and into the loops
InLoops == ev.kind \in {"ok", "fail", "crash"} /\ ev.listing # << >>

\* C11: in an execution with --dry-run save is never called and every site's
\* documents and lastCheck in memory stay those of the state file it loaded;
\* in an execution without --dry-run save is not called while the loop runs and
\* has been called exactly once, writing the state in memory, when the execution
\* has ended after its last site.
C11_DryRunNeverSaves ==
    /\ (now > 0 /\ args.dryRun) =>
          /\ saves = 0
          /\ \A s \in Sites :
                /\ SiteStateOf(state, s).documents = SiteStateOf(disk, s).documents
                /\ SiteStateOf(state, s).lastCheck = SiteStateOf(disk, s).lastCheck
    /\ pc = "sites" => saves = 0
    /\ (now > 0 /\ ~args.dryRun /\ pc = "idle" /\ Len(results) = Len(SiteList)) =>
          saves = 1 /\ disk = state

\* a dry execution finds changed documents for a site whose snapshot an earlier
\* execution saved
C11_Witness ==
    /\ args.dryRun /\ ev.kind = "ok" /\ ev.diff.updated # << >>
    /\ ev.site \in DOMAIN disk /\ disk[ev.site].documents # << >>
    /\ SiteStateOf(state, ev.site).documents = disk[ev.site].documents

\* C12: in an execution with --dry-run and without --notify, processSite makes no
\* notifier call (new document, updated document or error) on any path.
C12_DryRunSilent == (args.dryRun /\ ~args.notify) => ev.calls = << >>

\* a silent dry execution whose loops handled two new documents, one download
\* failing
C12_Witness ==
    /\ args.dryRun /\ ~args.notify
    /\ ev.kind = "ok" /\ Len(ev.diff.new) = 2 /\ ev.run[1].dl /\ ~ev.run[2].dl

\* the snapshot of the observed site holds the documents of the observed call
\* (new, updated, unchanged, with the hashes of the downloads), checked now
Committed ==
    LET all == AllDocs(ev.diff, ev.run)
    IN /\ Len(After.documents) = Len(all)
       /\ \A k \in 1..Len(all) :
             /\ After.documents[k].url = all[k].url
             /\ After.documents[k].title = all[k].title
             /\ After.documents[k].hash = all[k].hash
       /\ After.lastCheck = now

C14_EverySiteGetsResult ==
    (pc = "idle" /\ now > 0) =>
        /\ Len(results) = Len(SiteList)
        /\ \A i \in 1..Len(results) : results[i].site = SiteList[i]

\* C15: when an execution has ended with a non-zero exit code, no site of it was
\* processed successfully; when some site succeeded the exit code is 0.
C15_ExitCodeOnlyIfAllFailed ==
    (pc = "idle" /\ now > 0) =>
        /\ exitCode # 0 => \A i \in 1..Len(results) : ~results[i].success
        /\ (\E i \in 1..Len(results) : results[i].success) => exitCode = 0

C17_ArtifactDeleted ==
    \A i \in 1..Len(ev.run) : ev.run[i].dl => ev.run[i].unlinked

-----------------------------------------------------------------------------
(* Properties of validateFile, stated on the finished validation *)

Validated == vpc = "done"

\* a listed marker lies within the first 100 bytes of the buffer
MarkerInHeader(buf) ==
    \E sig \in ListedMarkers :
        \E k \in 0..(HeaderLen - Len(sig)) :
            /\ k + Len(sig) <= Len(buf)
            /\ \A j \in 1..Len(sig) : buf[k + j] = sig[j]

\* the buffer begins with the signature of some known type
KnownSignature(buf) ==
    \E i \in 1..Len(MagicTypes) :
        LET sig == MagicBytes(MagicTypes[i])
        IN Len(buf) >= Len(sig) /\ SubSeq(buf, 1, Len(sig)) = sig

PdfSignature(buf) == Len(buf) >= 4 /\ SubSeq(buf, 1, 4) = << 37, 80, 68, 70 >>

\* C18: every non-empty buffer with a listed marker within its first 100 bytes
\* is rejected with reason html_error_page, whatever the expected type and
\* whatever bytes it begins with.
C18_HtmlRejectedFirst ==
    (Validated /\ file.buffer # << >> /\ MarkerInHeader(file.buffer)) =>
        /\ ~validation.result.valid
        /\ validation.result.reason = << "html_error_page" >>

\* a buffer that begins with the PDF signature and holds '<!DOCTYPE' within its
\* first 100 bytes, validated as pdf
C18_Witness ==
    /\ Validated /\ validation.expectedType = "pdf" /\ PdfSignature(file.buffer)
    /\ Includes(Slice(file.buffer, 60), DocType)
    /\ validation.result.reason = << "html_error_page" >>

\* C19 as stated: every buffer that begins with 25 50 44 46 is accepted when
\* the expected type is pdf, with the hash and the size of the buffer.
C19_PdfAccepted ==
    (Validated /\ validation.expectedType = "pdf" /\ PdfSignature(file.buffer)) =>
        /\ validation.result.valid
        /\ validation.result.hash = Sha256(file.buffer)
        /\ validation.result.size = Len(file.buffer)

\* C19 amended: every buffer that begins with 25 50 44 46 and has no listed
\* marker within its first 100 bytes is accepted when the expected type is pdf,
\* with the hash and the size of the buffer.
C19_PdfWithoutMarkerAccepted ==
    ( /\ Validated /\ validation.expectedType = "pdf"
      /\ PdfSignature(file.buffer) /\ ~MarkerInHeader(file.buffer) ) =>
        /\ validation.result.valid
        /\ validation.result.hash = Sha256(file.buffer)
        /\ validation.result.size = Len(file.buffer)

\* a PDF longer than the header whose marker begins within the first 100 bytes
\* and ends after them is accepted
C19_Witness ==
    /\ Validated /\ validation.expectedType = "pdf" /\ PdfSignature(file.buffer)
    /\ Len(file.buffer) > HeaderLen
    /\ \E sig \in ListedMarkers : Includes(file.buffer, sig)
    /\ validation.result.valid

\* C20: every buffer accepted, for a declared or an inferred expected type, is
\* non-empty, has no listed marker within its first 100 bytes and begins with
\* the signature of a known type.
C20_AcceptedIsKnownDocument ==
    (Validated /\ validation.result.valid) =>
        /\ file.buffer # << >>
        /\ ~MarkerInHeader(file.buffer)
        /\ KnownSignature(file.buffer)

\* the buffer begins with the signature of the given type
LeadsWith(buf, type) ==
    Len(buf) >= Len(MagicBytes(type)) /\ SubSeq(buf, 1, Len(MagicBytes(type))) = MagicBytes(type)

\* the expected type has a signature and the buffer does not begin with it
Mismatch ==
    /\ Validated /\ HasMagic(validation.expectedType)
    /\ ~LeadsWith(file.buffer, validation.expectedType)

\* C21 as stated: whenever the expected type has a signature the buffer does not
\* begin with, the buffer is accepted exactly if it begins with another known
\* signature, and rejected with invalid_magic_number_for_<type> otherwise.
C21_MismatchDecidedBySignature ==
    Mismatch =>
        /\ validation.result.valid <=> KnownSignature(file.buffer)
        /\ ~validation.result.valid =>
              validation.result.reason
                  = << "invalid_magic_number_for_", validation.expectedType >>

\* C21 amended: the same for the buffers that reach the magic-number check, the
\* non-empty ones without a listed marker within their first 100 bytes.
C21_MismatchDecidedBySignatureAfterHtml ==
    (Mismatch /\ file.buffer # << >> /\ ~MarkerInHeader(file.buffer)) =>
        /\ validation.result.valid <=> KnownSignature(file.buffer)
        /\ ~validation.result.valid =>
              validation.result.reason
                  = << "invalid_magic_number_for_", validation.expectedType >>

\* a ZIP archive longer than the header, validated as pdf, is accepted
C21_Witness ==
    /\ Mismatch /\ validation.expectedType = "pdf" /\ LeadsWith(file.buffer, "zip")
    /\ Len(file.buffer) > HeaderLen /\ validation.result.valid

\* how often the pair of title and url occurs in a list of documents
Occurrences(docs, pair) ==
    Cardinality({k \in 1..Len(docs) : <<docs[k].title, docs[k].url>> = pair})

UrlsOf(docs) == {docs[k].url : k \in 1..Len(docs)}

\* C25: after a successful non-dry call of processSite that found documents, the
\* snapshot of the site holds exactly the documents of the listing: the changed
\* documents (new, then the current records of the updated) followed by the
\* unchanged ones, a downloaded document with the hash of the file served, no
\* stored document whose URL was not listed, and lastCheck set to the time of
\* the call.
C25_SnapshotIsObserved ==
    (ev.kind = "ok" /\ ~args.dryRun /\ ev.listing # << >>) =>
        LET docs == After.documents
            changed == ChangedDocs(ev.diff)
        IN /\ Len(docs) = Len(ev.listing)
           /\ Len(ev.run) = Len(changed)
           /\ \A k \in 1..Len(docs) : <<docs[k].title, docs[k].url>> \in Listed(ev.listing)
           /\ \A pair \in Listed(ev.listing) :
                 Occurrences(docs, pair) = Occurrences(ev.listing, pair)
           /\ \A j \in 1..Len(ev.prev.documents) :
                 ev.prev.documents[j].url \notin UrlsOf(ev.listing)
                     => ev.prev.documents[j].url \notin UrlsOf(docs)
           /\ \A i \in 1..Len(changed) :
                 /\ docs[i].url = changed[i].url /\ docs[i].title = changed[i].title
                 /\ ev.run[i].dl => docs[i].hash = ev.served[changed[i].url]
           /\ \A u \in 1..Len(ev.diff.unchanged) :
                 /\ docs[Len(changed) + u].url = ev.diff.unchanged[u].url
                 /\ docs[Len(changed) + u].title = ev.diff.unchanged[u].title
                 /\ docs[Len(changed) + u].hash = ev.diff.unchanged[u].hash
           /\ After.lastCheck = now

\* a stored document is not listed any more, the listed one is downloaded and
\* the snapshot holds the listed one only
C25_Witness ==
    /\ ev.kind = "ok" /\ ~args.dryRun
    /\ \E j \in 1..Len(ev.prev.documents) :
          ev.prev.documents[j].url \notin UrlsOf(ev.listing)
    /\ Len(ev.run) = 1 /\ ev.run[1].dl
    /\ Len(After.documents) = 1 /\ After.documents[1].hash = ev.served[ev.listing[1].url]

-----------------------------------------------------------------------------
(* Further properties of diff *)

\* the step that is the diff call
DiffStep == dpc = "call" /\ dpc' = "done"

\* C26 as stated: the state of the manager after diff equals its state before,
\* also for a site without stored state.
C26_DiffLeavesState == [][DiffStep => state' = state]_vars

\* C26 amended: diff leaves every stored site as it was; its one effect is the
\* empty entry (no documents, no lastCheck) getSiteState creates for the site
\* when nothing was stored for it.
C26_DiffLeavesStoredSites ==
    [][DiffStep =>
         /\ \A s \in DOMAIN state : s \in DOMAIN state' /\ state'[s] = state[s]
         /\ \A s \in (DOMAIN state') \ (DOMAIN state) :
               s = "s1" /\ state'[s] = EmptySiteState
      ]_vars

\* diff has classified documents against a stored snapshot
C26_Witness == dpc = "done" /\ Len(PrevDocs) = 2 /\ diffResult.updated # << >>

\* seq rearranged by the permutation f of its indices
Permute(seq, f) == [i \in 1..Len(seq) |-> seq[f[i]]]

\* how a diff result classifies the document doc
ClassIn(d, doc) ==
    [new |-> InSeq(doc, d.new), unchanged |-> InSeq(doc, d.unchanged),
     reasons |-> {d.updated[i].reason : i \in {k \in 1..Len(d.updated) : d.updated[k].doc = doc}}]

\* the diff of the current list rearranged by f against the snapshot rearranged by g
DiffPermuted(f, g) ==
    Diff([s \in {"s1"} |-> [EmptySiteState EXCEPT !.documents = Permute(PrevDocs, g)]],
         "s1", Permute(currentDocs, f))

\* g keeps, for every URL, the record that is last among the records of that URL
KeepsLastOfUrl(g) ==
    \A j \in 1..Len(PrevDocs) :
        LastOfUrl(j) =>
            \E k \in 1..Len(PrevDocs) :
                /\ g[k] = j
                /\ \A m \in (k + 1)..Len(PrevDocs) : PrevDocs[g[m]].url # PrevDocs[j].url

\* C27 as stated: rearranging the current documents and the previous documents
\* in any way gives every current document the same class and reason.
C27_OrderIndependent ==
    dpc = "done" =>
        \A f \in Permutations(1..Len(currentDocs)), g \in Permutations(1..Len(PrevDocs)) :
            \A i \in 1..Len(currentDocs) :
                ClassIn(DiffPermuted(f, g), currentDocs[i]) = ClassIn(diffResult, currentDocs[i])

\* the snapshots diff is rearranged over: records with and without title, under
\* two URLs, with two hashes and without hash
OrderDocs ==
    {Document(t, u, h, NoTime) : t \in {NoTitle, "DOC"}, u \in Urls, h \in Hashes \cup {NoHash}}

InitDiffOrder ==
    /\ disk = << >> /\ pc = "idle" /\ args = [dryRun |-> FALSE, notify |-> FALSE]
    /\ idx = 1 /\ results = << >> /\ now = 0 /\ exitCode = 0 /\ saves = 0
    /\ ev = EvNone /\ notifiedNew = [s \in Sites |-> {}]
    /\ failedWith = [s \in Sites |-> NoFailure]
    /\ config = << "s1" >>
    /\ file = NoFile /\ validation = NoValidation /\ vpc = "none"
    /\ dl = NoDownload /\ nav = NoNavigation /\ ex = NoExtraction
    /\ \E prev \in SeqUpTo(OrderDocs, MaxPrev) :
          state = [s \in {"s1"} |-> [EmptySiteState EXCEPT !.documents = prev]]
    /\ currentDocs \in SeqUpTo(DiffArgs, MaxCur)
    /\ diffResult = EmptyDiff
    /\ dpc = "call"

SpecDiffOrder == InitDiffOrder /\ [][NextDiff]_vars

\* the diff result d classifies every current document as diffResult does
SameClasses(d) ==
    \A i \in 1..Len(currentDocs) :
        ClassIn(d, currentDocs[i]) = ClassIn(diffResult, currentDocs[i])

Identity(n) == [i \in 1..n |-> i]

\* C27 amended: every current document keeps its class and reason under every
\* rearrangement of the current documents and under every rearrangement of the
\* previous documents that keeps, for each URL, the same record last among the
\* records with that URL. (Every rearranged snapshot and list is itself a
\* state of SpecDiffOrder, so the two rearrangements compose.)
C27_OrderIndependentUpToLastOfUrl ==
    dpc = "done" =>
        /\ \A f \in Permutations(1..Len(currentDocs)) :
              SameClasses(DiffPermuted(f, Identity(Len(PrevDocs))))
        /\ \A g \in {h \in Permutations(1..Len(PrevDocs)) : KeepsLastOfUrl(h)} :
              SameClasses(DiffPermuted(Identity(Len(currentDocs)), g))

\* two different current documents, one updated and one not, against a snapshot
\* of two records with different URLs
C27_Witness ==
    /\ dpc = "done" /\ Len(currentDocs) = 2 /\ currentDocs[1] # currentDocs[2]
    /\ Len(PrevDocs) = 2 /\ PrevDocs[1].url # PrevDocs[2].url
    /\ Len(diffResult.updated) = 1 /\ Len(diffResult.unchanged) = 1

\* current document i has the URL of record j, the record the URL index keeps,
\* and the title of another record k
UrlAndTitleMatch(i, j, k) ==
    /\ currentDocs[i].url = PrevDocs[j].url /\ LastOfUrl(j)
    /\ k # j /\ TitleMatch(i, k)

NotUrlChanged(d) ==
    \A u \in 1..Len(diffResult.updated) :
        diffResult.updated[u].doc = d => diffResult.updated[u].reason # "url_changed"

\* C28: a current document with the URL of one previous record and the title of
\* another is classified by the URL rule alone: hash_changed against the record
\* with its URL when both hashes are present and differ, unchanged otherwise,
\* never url_changed.
C28_UrlBeforeTitle ==
    dpc = "done" =>
        \A i \in 1..Len(currentDocs) : \A j, k \in 1..Len(PrevDocs) :
            UrlAndTitleMatch(i, j, k) =>
                /\ NotUrlChanged(currentDocs[i])
                /\ IF SameUrlOtherHash(i, j)
                   THEN /\ OnlyUpdated(currentDocs[i])
                        /\ InUpdatedAs(currentDocs[i], PrevDocs[j], "hash_changed")
                   ELSE OnlyUnchanged(currentDocs[i])

\* a document found under its URL with another hash while its title is stored
\* under another URL
C28_Witness ==
    /\ dpc = "done"
    /\ \E i \in 1..Len(currentDocs) : \E j, k \in 1..Len(PrevDocs) :
          /\ UrlAndTitleMatch(i, j, k) /\ SameUrlOtherHash(i, j)
          /\ PrevDocs[k].url # currentDocs[i].url
          /\ InUpdatedAs(currentDocs[i], PrevDocs[j], "hash_changed")

\* C29: a current document whose URL is stored is unchanged whenever it has no
\* hash or the record the URL index keeps for its URL has none.
C29_NoHashNoUpdate ==
    dpc = "done" =>
        \A i \in 1..Len(currentDocs) : \A j \in 1..Len(PrevDocs) :
            ( /\ currentDocs[i].url = PrevDocs[j].url /\ LastOfUrl(j)
              /\ (currentDocs[i].hash = NoHash \/ PrevDocs[j].hash = NoHash) )
            => OnlyUnchanged(currentDocs[i])

\* a hashed document matched by URL with a record without hash, and a document
\* without hash matched with a hashed record
C29_Witness ==
    /\ dpc = "done" /\ Len(currentDocs) = 2 /\ Len(PrevDocs) = 1
    /\ currentDocs[1].url = PrevDocs[1].url
    /\ currentDocs[1].hash # NoHash /\ currentDocs[2].hash = NoHash
    /\ PrevDocs[1].hash = NoHash
    /\ Len(diffResult.unchanged) = 2

-----------------------------------------------------------------------------
(* Properties of download and withRetry, stated on the calls of download *)

\* C22: in every call of download the direct fetch is made once when the
\* in-session path failed with anything but a validation rejection and is not
\* made otherwise; a validation rejection of the in-session file leaves download
\* as the DownloadError carrying the reason of the validation.
C22_FallbackUnlessRejected ==
    /\ \A k \in 1..Len(dl.log) :
          /\ dl.log[k].direct = IF dl.log[k].session = "failed" THEN 1 ELSE 0
          /\ dl.log[k].session = "rejected" => dl.log[k].error.name = "DownloadError"
    /\ dl.pc = "fetch" => (dl.cur.session = "failed" /\ dl.cur.direct = 0)
    /\ dl.cur.session = "rejected" =>
          /\ dl.pc \in {"caught", "loop", "thrown"} /\ dl.cur.direct = 0
          /\ dl.cur.error = DownloadError(ValidateFile(dl.cur.saved, dl.type).reason)
    /\ dl.cur.session = "valid" => (dl.pc = "done" /\ dl.cur.direct = 0)

\* a first call rejected by the validation without direct fetch, a second call
\* whose in-session path failed otherwise, with its one direct fetch
C22_Witness ==
    /\ Len(dl.log) = 2
    /\ dl.log[1].session = "rejected" /\ dl.log[1].direct = 0
    /\ dl.log[2].session = "failed" /\ dl.log[2].direct = 1

\* the direct fetch of the last call of download got a response
Fetched == dl.cur.direct = 1 /\ dl.cur.response # NoResponse

\* the last call threw DownloadError with this reason and left no file
RejectedWith(reason) ==
    /\ dl.cur.error = DownloadError(reason)
    /\ dl.pc \in {"caught", "loop", "thrown"} /\ ~dl.returned
    /\ dl.files = {}

\* C23: downloadDirect rejects a response whose status is not 2xx as http_error
\* and one whose content-type contains text/html as html_response with nothing
\* written and nothing validated; after either, and after a rejection by the
\* validation of the written bytes, no file is left.
C23_DirectRejectsBeforeWriting ==
    Fetched =>
        LET r == dl.cur.response
            v == ValidateFile(r.body, dl.type)
        IN /\ ~Ok(r.status) =>
                 /\ RejectedWith(<< "http_error" >>)
                 /\ dl.cur.written = 0 /\ dl.cur.validated = 0
           /\ (Ok(r.status) /\ Includes(r.contentType, TextHtml)) =>
                 /\ RejectedWith(<< "html_response" >>)
                 /\ dl.cur.written = 0 /\ dl.cur.validated = 0
           /\ (Ok(r.status) /\ ~Includes(r.contentType, TextHtml) /\ ~v.valid) =>
                 /\ RejectedWith(v.reason)
                 /\ dl.cur.written = 1 /\ dl.cur.validated = 1

\* a 200 response with content-type 'text/html;' and the bytes of a PDF
C23_Witness ==
    /\ Fetched /\ dl.cur.response.status = 200
    /\ dl.cur.response.contentType = TextHtml \o << 59 >>
    /\ dl.cur.response.body = << 37, 80, 68, 70, 45 >>
    /\ dl.cur.written = 0 /\ dl.cur.error = DownloadError(<< "html_response" >>)

\* the calls of download made so far
Attempts == Len(dl.log) + (IF dl.pc = "fetch" THEN 1 ELSE 0)

\* C24: download is called at most 1 + site.retries times (3 times when
\* site.retries is not configured), not again once it returned, and the k-th
\* failed call that is not the last is followed by a wait of 1000 * 2^k ms
\* (k from 0).
C24_BoundedRetry ==
    LET configured == IF dl.retries = Unset THEN 2 ELSE dl.retries
    IN /\ Attempts <= 1 + configured
       /\ Len(dl.delays) <= configured
       /\ \A k \in 1..Len(dl.delays) : dl.delays[k] = 1000 * 2^(k - 1)
       /\ \A k \in 1..(Len(dl.log) - 1) : dl.log[k].session # "valid" /\ dl.log[k].error # NoThrow
       /\ dl.pc = "thrown" => Len(dl.delays) = Len(dl.log) - 1

-----------------------------------------------------------------------------
(* Properties of navigate, stated on the log of the executeStep calls *)

\* the retries a step is allowed: its `retries`, one when not configured
AllowedRetries(step) == IF step.retries = Unset THEN 1 ELSE step.retries

\* the wait after entry k of the log is still to come
WaitPending(k) == k = Len(nav.log) /\ nav.pc = "wait"

-----------------------------------------------------------------------------
(* The partition made by diff *)

UpdatedDocs == [i \in 1..Len(diffResult.updated) |-> diffResult.updated[i].doc]

\* C40: after diff, every current document is in exactly one of new, updated
\* (as doc) and unchanged, the three lists together are as long as the current
\* list, and each list holds its documents in the order of the current list.
C40_DiffPartitions ==
    dpc = "done" =>
        /\ \A i \in 1..Len(currentDocs) :
              \/ OnlyNew(currentDocs[i])
              \/ OnlyUpdated(currentDocs[i])
              \/ OnlyUnchanged(currentDocs[i])
        /\ Len(diffResult.new) + Len(diffResult.updated) + Len(diffResult.unchanged)
              = Len(currentDocs)
        /\ diffResult.new = SelectSeq(currentDocs, InNew)
        /\ UpdatedDocs = SelectSeq(currentDocs, InUpdated)
        /\ diffResult.unchanged = SelectSeq(currentDocs, InUnchanged)

\* two different current documents against a stored snapshot: one unchanged,
\* the other new or updated
C40_Witness ==
    /\ dpc = "done" /\ Len(currentDocs) = 2 /\ currentDocs[1] # currentDocs[2]
    /\ Len(PrevDocs) > 0
    /\ Len(diffResult.unchanged) = 1
    /\ Len(diffResult.new) + Len(diffResult.updated) = 1

-----------------------------------------------------------------------------
(* Properties of navigate: the step that failed on all its attempts *)

\* the attempts of step i are used up: the last entry of the log for it is its
\* last allowed attempt, and it failed
Exhausted(i) ==
    \E k \in 1..Len(nav.log) :
        /\ nav.log[k].step = i /\ ~nav.log[k].ok
        /\ nav.log[k].attempt = AllowedRetries(nav.steps[i])
        /\ ~(k = Len(nav.log) /\ nav.pc = "exhausted")

\* navigate threw at the step of the last entry of the log: NavigationError
\* with that step, its index and the message of the error of its last attempt
ThrownAtLastStep ==
    LET n == Len(nav.log)
        i == nav.log[Len(nav.log)].step
    IN /\ n > 0 /\ ~nav.log[n].ok
       /\ ~nav.steps[i].optional
       /\ nav.error.name = NavigationErrorName
       /\ nav.error.action = nav.steps[i].action /\ nav.error.stepIndex = i - 1
       /\ nav.error.message =
             << "Navigation step failed: ", nav.steps[i].action, " - " >>
                 \o (IF nav.steps[i].action = "click" THEN << "Timeout 30000ms exceeded" >>
                     ELSE << "Unknown action: ", nav.steps[i].action >>)

\* every step whose attempts are used up was passed over if optional, and is the
\* step navigate threw at otherwise
ExhaustedStepsHandled ==
    \A i \in 1..Len(nav.steps) :
        Exhausted(i) =>
            IF nav.steps[i].optional
            THEN /\ i \in nav.skipped /\ nav.i > i
                 /\ nav.pc = "failed" => nav.error.stepIndex # i - 1
            ELSE /\ nav.pc = "failed" /\ ThrownAtLastStep
                 /\ nav.log[Len(nav.log)].step = i

\* C31 as stated: an optional step that failed on all its attempts is passed
\* over and navigate goes on; at any other such step navigate throws
\* NavigationError with the step, its index and the message of the step's
\* error, no later step is attempted, and when the capture of the diagnostics
\* failed the error carries neither screenshot nor html.
C31_FailedStepHandled ==
    /\ ExhaustedStepsHandled
    /\ (nav.pc = "failed" /\ nav.capture # "both") =>
          (~nav.error.screenshot /\ ~nav.error.html)

\* C31 amended: the same, but when the capture failed the error carries what
\* was captured before the failure: nothing when page.screenshot threw, the
\* screenshot without html when page.content threw.
C31_FailedStepHandledPartialCapture ==
    /\ ExhaustedStepsHandled
    /\ nav.pc = "failed" =>
          /\ nav.capture = "both" => (nav.error.screenshot /\ nav.error.html)
          /\ nav.capture = "screenshot" => (nav.error.screenshot /\ ~nav.error.html)
          /\ nav.capture = "none" => (~nav.error.screenshot /\ ~nav.error.html)

\* an optional first step is passed over after its two attempts and the second
\* step, not optional, makes navigate throw while page.screenshot throws too
C31_Witness ==
    /\ nav.pc = "failed" /\ Len(nav.steps) = 2
    /\ nav.steps[1].optional /\ nav.skipped = {1}
    /\ nav.error.stepIndex = 1 /\ nav.capture = "none"
    /\ nav.error.message = << "Navigation step failed: ", "click", " - ",
                              "Timeout 30000ms exceeded" >>

\* C32: a step whose action is none of the cases of executeStep performs no
\* page operation, and once it was attempted navigate throws at it: it is not
\* passed over and no later step is attempted.
C32_UnknownActionFatal ==
    \A k \in 1..Len(nav.log) :
        LET i == nav.log[k].step
        IN nav.steps[i].action = "clik" =>
              /\ i \notin nav.operated
              /\ i \notin nav.skipped
              /\ \A m \in 1..Len(nav.log) : nav.log[m].step <= i
              /\ nav.pc # "done"

-----------------------------------------------------------------------------
(* Properties of Extractor.extract, stated on the finished call *)

Extracted == ex.pc = "done" /\ ex.op = "extract"

\* extractDocument throws for the item: a required field raised ExtractionError
Raises(item) == ExtractDocument(item, ex.config.fields).thrown
\* extractDocument gives a document for the item
Yields(item) ==
    /\ ~ExtractDocument(item, ex.config.fields).thrown
    /\ ~ExtractDocument(item, ex.config.fields).null
DocsOf(items) == [i \in 1..Len(items) |-> ExtractDocument(items[i], ex.config.fields).doc]

\* C33: extract always returns; whichever items raise an extraction error, its
\* result is made of the documents of the items that give one, in page order
\* (then filtered when filterPatterns is configured), and it is the empty list
\* when listSelector matches no item.
C33_OneItemNeverAborts ==
    Extracted =>
       /\ ex.result = IF ex.config.filterPatterns # NoFilter
                      THEN ApplyFilters(DocsOf(SelectSeq(ex.input, Yields)),
                                        ex.config.filterPatterns)
                      ELSE DocsOf(SelectSeq(ex.input, Yields))
       /\ ex.input = << >> => ex.result = << >>

\* the first item raises an extraction error and the second is returned
C33_Witness ==
    /\ Extracted /\ Len(ex.input) = 2 /\ ex.config.filterPatterns = NoFilter
    /\ Raises(ex.input[1]) /\ Yields(ex.input[2])
    /\ ex.result = DocsOf(<< ex.input[2] >>)

\* C34: every document extract returns has a non-empty value for every
\* configured field that is not optional.
C34_RequiredFieldsPresent ==
    Extracted =>
       \A k \in 1..Len(ex.result) :
          /\ ~ex.config.fields.title.optional => ex.result[k].title # << >>
          /\ ~ex.config.fields.url.optional => ex.result[k].url # << >>

\* C35: every document extract returns has a non-empty url; an item that
\* gives a title and no url is not in the result.
C35_EveryDocumentHasUrl ==
    Extracted =>
       /\ \A k \in 1..Len(ex.result) : ex.result[k].url # << >>
       /\ Len(ex.result) <=
             Cardinality({i \in 1..Len(ex.input) :
                            ExtractField(TargetOf(ex.input[i], "url", ex.config.fields.url),
                                         ex.config.fields.url).value # << >>})

\* the first item has a title and a link without href, the url being optional:
\* it is discarded and the second item is returned
C35_Witness ==
    /\ Extracted /\ Len(ex.input) = 2 /\ ex.config.filterPatterns = NoFilter
    /\ ex.config.fields.url.optional /\ ex.config.fields.url.attribute = "href"
    /\ ex.input[1].text = [found |-> TRUE, value |-> << 97, 55 >>]
    /\ ex.input[1].link = [found |-> TRUE, value |-> << >>]
    /\ ~Raises(ex.input[1])
    /\ Len(ex.result) = 1 /\ ex.result[1].url # << >>

-----------------------------------------------------------------------------
(* Properties of Extractor.applyFilters, stated on the finished call *)

Filtered == ex.pc = "done" /\ ex.op = "applyFilters" /\ ex.config.patterns # << >>

\* pattern is a substring of value, the case of the letters apart
ContainsIgnoringCase(value, pattern) ==
    \E off \in 0..(Len(value) - Len(pattern)) :
        \A j \in 1..Len(pattern) :
            ToLowerCase(value)[off + j] = ToLowerCase(pattern)[j]
\* the target field of the document contains at least one pattern
HasPattern(doc) ==
    \E k \in 1..Len(ex.config.patterns) :
        ContainsIgnoringCase(DocField(doc, ex.config.field), ex.config.patterns[k])
HasNoPattern(doc) == ~HasPattern(doc)
LacksField(doc) == DocField(doc, ex.config.field) = << >>
\* what the call would have returned in the other mode
OtherMode == IF ex.config.mode = "include" THEN "exclude" ELSE "include"
OtherResult == ApplyFilters(ex.input, [ex.config EXCEPT !.mode = OtherMode])
IncludeResult == IF ex.config.mode = "include" THEN ex.result ELSE OtherResult
ExcludeResult == IF ex.config.mode = "exclude" THEN ex.result ELSE OtherResult

\* include returns the documents with a pattern and exclude the others, both in
\* the order of the input
FilterPartitions ==
    /\ IncludeResult = SelectSeq(ex.input, HasPattern)
    /\ ExcludeResult = SelectSeq(ex.input, HasNoPattern)
    /\ Len(IncludeResult) + Len(ExcludeResult) = Len(ex.input)

\* C37 as stated: with a non-empty pattern list, include returns exactly the
\* documents whose target field contains a pattern, the case apart, exclude the
\* others, in the order of the input; a document without the target field
\* never matches.
C37_FilterPartition ==
    Filtered =>
       /\ FilterPartitions
       /\ \A k \in 1..Len(IncludeResult) : ~LacksField(IncludeResult[k])

\* C37: with a non-empty pattern list, include returns exactly the documents
\* whose target field contains a pattern, the case apart, exclude the others,
\* in the order of the input; a document without the target field matches
\* exactly when one of the patterns is the empty string.
C37_FilterPartitionEmptyPattern ==
    Filtered =>
       /\ FilterPartitions
       /\ \A i \in 1..Len(ex.input) :
             LacksField(ex.input[i]) =>
                (HasPattern(ex.input[i])
                    <=> \E k \in 1..Len(ex.config.patterns) : ex.config.patterns[k] = << >>)

\* include with the patterns 'B' and '7': the document without title is
\* dropped and 'Ab' is kept
C37_Witness ==
    /\ Filtered /\ ex.config.mode = "include" /\ ex.config.field = "title"
    /\ ex.config.patterns = << << 66 >>, << 55 >> >>
    /\ Len(ex.input) = 2
    /\ ex.input[1].title = << >> /\ ex.input[2].title = << 65, 98 >>
    /\ ex.result = << ex.input[2] >>

-----------------------------------------------------------------------------
(* Properties of Extractor.resolveDeepLinks, stated on the finished call *)

Resolved == ex.pc = "done" /\ ex.op = "resolveDeepLinks"

\* the resolution of document i succeeded: navigation, wait and read went
\* through and the attribute gave a URL
Succeeded(i) == ~ex.outcomes[i].failed /\ ex.outcomes[i].realUrl # << >>

\* C38: resolveDeepLinks returns one document per input document, in the same
\* order: where the resolution succeeded, the document with the resolved URL
\* as url and its original url as intermediateUrl; where navigation, wait or
\* read failed, the input document with its url and no intermediateUrl; and
\* the input itself when deepSearch is not enabled.
C38_DeepLinksAlwaysComplete ==
    Resolved =>
       /\ Len(ex.result) = Len(ex.input)
       /\ ~ex.config.enabled => ex.result = ex.input
       /\ ex.config.enabled =>
             \A i \in 1..Len(ex.input) :
                /\ ex.result[i].title = ex.input[i].title
                /\ Succeeded(i) =>
                      /\ ex.result[i].url = ex.outcomes[i].realUrl
                      /\ ex.result[i].intermediateUrl = ex.input[i].url
                /\ ~Succeeded(i) =>
                      /\ ex.result[i].url = ex.input[i].url
                      /\ ex.result[i].intermediateUrl = << >>

\* the first document fails and keeps its url, the second is resolved
C38_Witness ==
    /\ Resolved /\ ex.config.enabled /\ Len(ex.input) = 2
    /\ ex.outcomes[1].failed /\ Succeeded(2)
    /\ ex.result[1] = ex.input[1]
    /\ ex.result[2].url = << 104, 58, 47, 102 >>
    /\ ex.result[2].intermediateUrl = ex.input[2].url

\* the query of the url has one of the parameters _, v, cache, timestamp, t, rand
HasCacheParam(url) ==
    /\ IndexOf(url, 63) # 0
    /\ \E k \in 1..Len(Split(SubSeq(url, IndexOf(url, 63) + 1, Len(url)), 38)) :
          ParamName(Split(SubSeq(url, IndexOf(url, 63) + 1, Len(url)), 38)[k])
             \in CacheParams

\* C36: no url of the documents that extract and resolveDeepLinks hand over to
\* diff has a cache-busting query parameter, whichever way it was obtained.
C36_NoCacheParamReachesDiff ==
    ex.pc = "done" /\ ex.op \in {"extract", "resolveDeepLinks"} =>
       \A k \in 1..Len(ex.result) : ~HasCacheParam(ex.result[k].url)

-----------------------------------------------------------------------------
(* The browser context of processSite *)

\* C39: whenever a call of processSite has ended - with zero documents, with
\* success, or through its catch block - the browser context it opened has
\* been closed.
C39_SessionClosed == ev.kind \in {"zero", "ok", "fail", "crash"} => ev.closed

====
